---- MODULE Spec2Model ----
(***************************************************************************)
(* XrayRefiner (cmd/xraysubrefiner): the per-subscription pipeline of      *)
(* main, the concurrent reachability prober filterReachableLines and the   *)
(* exporter writeBase64Atomic.                                             *)
(*                                                                         *)
(* A line is a Go string, modelled as the sequence of its bytes (ASCII     *)
(* codes), so that trimming, prefix dispatch, URL parsing, sorting and     *)
(* base64 coding are computed on the text as the code computes them.       *)
(***************************************************************************)
EXTENDS Integers, Sequences, FiniteSets, Bags, TLC

(***************************************************************************)
(* Strings                                                                 *)
(***************************************************************************)

\* unicode.IsSpace restricted to ASCII: \t \n \v \f \r and space.
IsSpace(c) == c \in {9, 10, 11, 12, 13, 32}

IsDigit(c) == c >= 48 /\ c <= 57

IsAlpha(c) == (c >= 65 /\ c <= 90) \/ (c >= 97 /\ c <= 122)

Max(a, b) == IF a >= b THEN a ELSE b

Min(a, b) == IF a <= b THEN a ELSE b

\* s[from:] with a 1-based first index.
Drop(s, from) == SubSeq(s, from, Len(s))

\* strings.HasPrefix
HasPrefix(s, p) == Len(s) >= Len(p) /\ SubSeq(s, 1, Len(p)) = p

\* strings.HasSuffix
HasSuffix(s, p) == Len(s) >= Len(p) /\ SubSeq(s, Len(s) - Len(p) + 1, Len(s)) = p

\* strings.IndexByte, 1-based; 0 when the byte does not occur.
IndexByte(s, c) ==
    IF \E i \in 1..Len(s) : s[i] = c
    THEN CHOOSE i \in 1..Len(s) : s[i] = c /\ \A j \in 1..(i - 1) : s[j] # c
    ELSE 0

\* strings.LastIndexByte, 1-based; 0 when the byte does not occur.
LastIndexByte(s, c) ==
    IF \E i \in 1..Len(s) : s[i] = c
    THEN CHOOSE i \in 1..Len(s) : s[i] = c /\ \A j \in (i + 1)..Len(s) : s[j] # c
    ELSE 0

\* strings.Count of a single byte.
CountByte(s, c) == Cardinality({i \in 1..Len(s) : s[i] = c})

\* strings.TrimSpace
TrimSpace(s) ==
    IF \A i \in 1..Len(s) : IsSpace(s[i])
    THEN << >>
    ELSE LET first == CHOOSE i \in 1..Len(s) :
                          ~IsSpace(s[i]) /\ \A j \in 1..(i - 1) : IsSpace(s[j])
             last == CHOOSE i \in 1..Len(s) :
                          ~IsSpace(s[i]) /\ \A j \in (i + 1)..Len(s) : IsSpace(s[j])
         IN  SubSeq(s, first, last)

\* The Go comparison a < b of two strings: bytewise lexicographic.
RECURSIVE StrLess(_, _)
StrLess(a, b) ==
    IF b = << >> THEN FALSE
    ELSE IF a = << >> THEN TRUE
    ELSE IF Head(a) # Head(b) THEN Head(a) < Head(b)
    ELSE StrLess(Tail(a), Tail(b))

\* strconv.Atoi on the strings the model meets: an optional sign and decimal
\* digits; anything else is a syntax error.
RECURSIVE DigitsValue(_, _)
DigitsValue(s, acc) ==
    IF s = << >> THEN acc ELSE DigitsValue(Tail(s), acc * 10 + (Head(s) - 48))

Atoi(s) ==
    LET signed == s # << >> /\ Head(s) \in {43, 45}
        digits == IF signed THEN Tail(s) ELSE s
    IN  IF digits = << >> \/ \E i \in 1..Len(digits) : ~IsDigit(digits[i])
        THEN [err |-> TRUE, val |-> 0]
        ELSE [err |-> FALSE,
              val |-> IF signed /\ Head(s) = 45
                      THEN 0 - DigitsValue(digits, 0)
                      ELSE DigitsValue(digits, 0)]

(***************************************************************************)
(* net/url, as far as the code uses it: Parse, URL.Host, URL.Hostname,     *)
(* URL.Port and URL.User.Username.  Percent escapes are outside the model: *)
(* no modelled line holds a '%'.  Each step of the parse is an operator of *)
(* its own that hands what it has found to the next one.                   *)
(***************************************************************************)

\* s before the 1-based index i; all of s when i is 0 (no separator found).
Before(s, i) == IF i = 0 THEN s ELSE SubSeq(s, 1, i - 1)

\* validOptionalPort: "" or ":" followed by digits only.
ValidOptionalPort(p) ==
    p = << >> \/ (Head(p) = 58 /\ \A i \in 2..Len(p) : IsDigit(p[i]))

\* The bytes the host of an authority may hold unescaped (shouldEscape with
\* encodeHost): unreserved characters and  ! $ & ' ( ) * + , ; = : [ ] < > "
HostByteOk(c) ==
    IsAlpha(c) \/ IsDigit(c)
        \/ c \in {45, 95, 46, 126, 33, 36, 38, 39, 40, 41, 42, 43, 44, 59, 61, 58,
                  91, 93, 60, 62, 34}

\* validUserinfo
UserinfoByteOk(c) ==
    IsAlpha(c) \/ IsDigit(c)
        \/ c \in {45, 46, 95, 58, 126, 33, 36, 38, 39, 40, 41, 42, 43, 44, 59, 61, 37, 64}

\* parseHost: a bracketed literal needs its ']' and a valid optional port
\* after it; otherwise whatever follows the last ':' must be a valid port.
ParseHostOk(host) ==
    /\ IF host # << >> /\ Head(host) = 91
       THEN /\ LastIndexByte(host, 93) # 0
            /\ ValidOptionalPort(Drop(host, LastIndexByte(host, 93) + 1))
       ELSE \/ LastIndexByte(host, 58) = 0
            \/ ValidOptionalPort(Drop(host, LastIndexByte(host, 58)))
    /\ \A i \in 1..Len(host) : HostByteOk(host[i])

\* getScheme: whether the byte at index i may belong to a scheme.
SchemeByteOk(s, i) ==
    IsAlpha(s[i]) \/ (i > 1 /\ (IsDigit(s[i]) \/ s[i] \in {43, 45, 46}))

\* getScheme: the index of the first byte that cannot belong to a scheme, 0
\* when there is none.
SchemeStop(s) ==
    IF \E i \in 1..Len(s) : ~SchemeByteOk(s, i)
    THEN CHOOSE i \in 1..Len(s) :
            ~SchemeByteOk(s, i) /\ \A j \in 1..(i - 1) : SchemeByteOk(s, j)
    ELSE 0

\* getScheme: the length of the scheme given that index (the ':' follows the
\* scheme), 0 when the text has no scheme, -1 for "missing protocol scheme".
SchemeLenAt(s, stop) ==
    IF stop = 0 THEN 0
    ELSE IF s[stop] # 58 THEN 0
    ELSE IF stop = 1 THEN -1
    ELSE stop - 1

NoURL == [err |-> TRUE, host |-> << >>, hasUser |-> FALSE, username |-> << >>]

NoAuthority == [err |-> FALSE, host |-> << >>, hasUser |-> FALSE, username |-> << >>]

\* parseAuthority, the host and the user info split: the host and the user
\* info are checked; the user name is what precedes the first ':'.
ParseUserHost(host, userinfo, hasUser) ==
    IF ~ParseHostOk(host) THEN NoURL
    ELSE IF \E i \in 1..Len(userinfo) : ~UserinfoByteOk(userinfo[i]) THEN NoURL
    ELSE [err |-> FALSE, host |-> host, hasUser |-> hasUser,
          username |-> Before(userinfo, IndexByte(userinfo, 58))]

\* parseAuthority: the user info is what precedes the last '@' (at).
ParseAuthorityAt(authority, at) ==
    IF at = 0 THEN ParseUserHost(authority, << >>, FALSE)
    ELSE ParseUserHost(Drop(authority, at + 1), SubSeq(authority, 1, at - 1), TRUE)

ParseAuthority(authority) == ParseAuthorityAt(authority, LastIndexByte(authority, 64))

\* parse, after the scheme (of length sl) and the query are cut off: with a
\* leading "//" the authority runs to the next '/'; without one the URL is
\* opaque or a path and has no host (a first path segment with a colon and
\* no scheme is an error).
ParseRest(rest, sl) ==
    IF HasPrefix(rest, <<47, 47>>) /\ (sl > 0 \/ ~HasPrefix(rest, <<47, 47, 47>>))
    THEN ParseAuthority(Before(Drop(rest, 3), IndexByte(Drop(rest, 3), 47)))
    ELSE IF sl = 0 /\ rest # << >> /\ Head(rest) # 47 /\ IndexByte(rest, 58) # 0
              /\ (IndexByte(rest, 47) = 0 \/ IndexByte(rest, 58) < IndexByte(rest, 47))
    THEN NoURL
    ELSE NoAuthority

\* parse, the scheme found: the rest is what follows the scheme's ':' up to
\* the first '?'.
ParseAfterScheme(afterScheme, sl) ==
    ParseRest(Before(afterScheme, IndexByte(afterScheme, 63)), sl)

ParseWithScheme(u, sl) ==
    IF sl = -1 THEN NoURL
    ELSE ParseAfterScheme(IF sl > 0 THEN Drop(u, sl + 2) ELSE u, sl)

\* parse: no ASCII control byte is allowed.
ParseNoFragment(u) ==
    IF \E i \in 1..Len(u) : u[i] < 32 \/ u[i] = 127 THEN NoURL
    ELSE ParseWithScheme(u, SchemeLenAt(u, SchemeStop(u)))

\* url.Parse: err, u.Host, u.User != nil, u.User.Username().  The fragment,
\* from the first '#' on, is cut off first.
ParseURL(raw) == ParseNoFragment(Before(raw, IndexByte(raw, 35)))

\* splitHostPort: brackets around the host are dropped.
Unbracket(h) ==
    IF HasPrefix(h, <<91>>) /\ HasSuffix(h, <<93>>) THEN SubSeq(h, 2, Len(h) - 1) ELSE h

\* splitHostPort, given the index of the last ':' (0 for none).
SplitHostPortAt(hostPort, colon) ==
    IF colon # 0 /\ ValidOptionalPort(Drop(hostPort, colon))
    THEN [host |-> Unbracket(SubSeq(hostPort, 1, colon - 1)),
          port |-> Drop(hostPort, colon + 1)]
    ELSE [host |-> Unbracket(hostPort), port |-> << >>]

\* splitHostPort, behind URL.Hostname and URL.Port.
SplitHostPort(hostPort) == SplitHostPortAt(hostPort, LastIndexByte(hostPort, 58))

Hostname(u) == SplitHostPort(u.host).host

Port(u) == SplitHostPort(u.host).port

(***************************************************************************)
(* encoding/base64, StdEncoding                                            *)
(***************************************************************************)

B64Alphabet ==
    <<65, 66, 67, 68, 69, 70, 71, 72, 73, 74, 75, 76, 77, 78, 79, 80, 81, 82, 83, 84,
      85, 86, 87, 88, 89, 90, 97, 98, 99, 100, 101, 102, 103, 104, 105, 106, 107, 108,
      109, 110, 111, 112, 113, 114, 115, 116, 117, 118, 119, 120, 121, 122, 48, 49, 50,
      51, 52, 53, 54, 55, 56, 57, 43, 47>>

\* The 6-bit value of a base64 character, -1 for a byte outside the alphabet.
B64Value(c) ==
    IF c >= 65 /\ c <= 90 THEN c - 65
    ELSE IF c >= 97 /\ c <= 122 THEN c - 71
    ELSE IF c >= 48 /\ c <= 57 THEN c + 4
    ELSE IF c = 43 THEN 62
    ELSE IF c = 47 THEN 63
    ELSE -1

\* base64.StdEncoding.EncodeToString: three bytes to four characters, the
\* last group padded with '='.
RECURSIVE B64Encode(_)
B64Encode(b) ==
    IF b = << >> THEN << >>
    ELSE IF Len(b) = 1
    THEN <<B64Alphabet[(b[1] \div 4) + 1], B64Alphabet[((b[1] % 4) * 16) + 1], 61, 61>>
    ELSE IF Len(b) = 2
    THEN <<B64Alphabet[(b[1] \div 4) + 1],
           B64Alphabet[((b[1] % 4) * 16 + (b[2] \div 16)) + 1],
           B64Alphabet[((b[2] % 16) * 4) + 1], 61>>
    ELSE <<B64Alphabet[(b[1] \div 4) + 1],
           B64Alphabet[((b[1] % 4) * 16 + (b[2] \div 16)) + 1],
           B64Alphabet[((b[2] % 16) * 4 + (b[3] \div 64)) + 1],
           B64Alphabet[(b[3] % 64) + 1]>> \o B64Encode(Drop(b, 4))

\* One group of four characters: full, "xxx=" or "xx==" (the padded forms
\* only as the last group).
B64Group(g, last) ==
    LET v == [i \in 1..4 |-> B64Value(g[i])]
    IN  IF v[1] >= 0 /\ v[2] >= 0 /\ v[3] >= 0 /\ v[4] >= 0
        THEN [err |-> FALSE,
              val |-> <<v[1] * 4 + (v[2] \div 16), (v[2] % 16) * 16 + (v[3] \div 4),
                        (v[3] % 4) * 64 + v[4]>>]
        ELSE IF last /\ v[1] >= 0 /\ v[2] >= 0 /\ v[3] >= 0 /\ g[4] = 61
        THEN [err |-> FALSE,
              val |-> <<v[1] * 4 + (v[2] \div 16), (v[2] % 16) * 16 + (v[3] \div 4)>>]
        ELSE IF last /\ v[1] >= 0 /\ v[2] >= 0 /\ g[3] = 61 /\ g[4] = 61
        THEN [err |-> FALSE, val |-> <<v[1] * 4 + (v[2] \div 16)>>]
        ELSE [err |-> TRUE, val |-> << >>]

RECURSIVE B64DecodeGroups(_)
B64DecodeGroups(s) ==
    IF s = << >> THEN [err |-> FALSE, val |-> << >>]
    ELSE IF Len(s) < 4 THEN [err |-> TRUE, val |-> << >>]
    ELSE LET g == B64Group(SubSeq(s, 1, 4), Len(s) = 4)
             r == B64DecodeGroups(Drop(s, 5))
         IN  IF g.err \/ r.err THEN [err |-> TRUE, val |-> << >>]
             ELSE [err |-> FALSE, val |-> g.val \o r.val]

\* base64.StdEncoding.DecodeString: '\r' and '\n' are skipped, the padding is
\* required.
B64Decode(s) == B64DecodeGroups(SelectSeq(s, LAMBDA c : c \notin {10, 13}))

(***************************************************************************)
(* encoding/json, Unmarshal into map[string]any, for the documents the     *)
(* model meets: one flat object whose values are strings without escapes,  *)
(* numbers of the form -?digits(.digits)?, true, false or null.            *)
(***************************************************************************)

IsJSONSpace(c) == c \in {9, 10, 13, 32}

\* Whether the text lit stands in s at index i.
At(s, i, lit) == i >= 1 /\ i + Len(lit) - 1 <= Len(s) /\ SubSeq(s, i, i + Len(lit) - 1) = lit

\* The first index >= i that holds no JSON white space (Len(s) + 1 at the end).
RECURSIVE SkipWS(_, _)
SkipWS(s, i) == IF i <= Len(s) /\ IsJSONSpace(s[i]) THEN SkipWS(s, i + 1) ELSE i

\* The end of the run of digits that starts at i (i itself when there is none).
RECURSIVE DigitsEnd(_, _)
DigitsEnd(s, i) == IF i <= Len(s) /\ IsDigit(s[i]) THEN DigitsEnd(s, i + 1) ELSE i

JSONBad == [err |-> TRUE, kind |-> "none", str |-> << >>, num |-> 0, next |-> 0]

JSONOther(kind, next) ==
    [err |-> FALSE, kind |-> kind, str |-> << >>, num |-> 0, next |-> next]

\* A string that opens at i and whose closing quote is the close-th byte
\* after the opening one (0: none).
JSONString(s, i, close) ==
    IF close = 0 THEN JSONBad
    ELSE IF \E k \in (i + 1)..(i + close - 1) : s[k] = 92 \/ s[k] < 32 THEN JSONBad
    ELSE [err |-> FALSE, kind |-> "string", str |-> SubSeq(s, i + 1, i + close - 1),
          num |-> 0, next |-> i + close + 1]

\* A number whose digits start at d0 and end before d1, with an optional
\* fraction that ends before f1.  It is kept as int(float64): the fraction
\* is truncated, as the conversion in extractPortFromJSON does.
JSONNumber(s, neg, d0, d1, f1) ==
    IF d1 = d0 \/ (d1 - d0 > 1 /\ s[d0] = 48) \/ (f1 = d1 + 1) THEN JSONBad
    ELSE [err |-> FALSE, kind |-> "number", str |-> << >>,
          num |-> IF neg THEN 0 - DigitsValue(SubSeq(s, d0, d1 - 1), 0)
                  ELSE DigitsValue(SubSeq(s, d0, d1 - 1), 0),
          next |-> f1]

JSONDigits(s, neg, d0, d1) ==
    JSONNumber(s, neg, d0, d1,
               IF d1 <= Len(s) /\ s[d1] = 46 THEN DigitsEnd(s, d1 + 1) ELSE d1)

\* A value starting at i.
JSONValue(s, i) ==
    IF i > Len(s) THEN JSONBad
    ELSE IF s[i] = 34 THEN JSONString(s, i, IndexByte(Drop(s, i + 1), 34))
    ELSE IF s[i] = 45 THEN JSONDigits(s, TRUE, i + 1, DigitsEnd(s, i + 1))
    ELSE IF IsDigit(s[i]) THEN JSONDigits(s, FALSE, i, DigitsEnd(s, i))
    ELSE IF At(s, i, <<116, 114, 117, 101>>) THEN JSONOther("bool", i + 4)
    ELSE IF At(s, i, <<102, 97, 108, 115, 101>>) THEN JSONOther("bool", i + 5)
    ELSE IF At(s, i, <<110, 117, 108, 108>>) THEN JSONOther("null", i + 4)
    ELSE JSONBad

NoMap == [err |-> TRUE, m |-> << >>]

\* The map m with key bound to the value v: a later key replaces an earlier
\* one.
MapPut(m, key, v) ==
    [x \in DOMAIN m \cup {key} |->
        IF x = key THEN [kind |-> v.kind, str |-> v.str, num |-> v.num] ELSE m[x]]

\* m[key], nil (kind "none") when the key is absent.
MapGet(m, key) ==
    IF key \in DOMAIN m THEN m[key] ELSE [kind |-> "none", str |-> << >>, num |-> 0]

\* The members of an object from index i on (after '{' or ','), added to the
\* map acc: a key, ':', a value, then ',' and more members or the closing '}'
\* and nothing but white space.
RECURSIVE JSONMembers(_, _, _)
JSONMemberEnd(s, e, m) ==
    IF e > Len(s) THEN NoMap
    ELSE IF s[e] = 44 THEN JSONMembers(s, e + 1, m)
    ELSE IF s[e] = 125 /\ SkipWS(s, e + 1) > Len(s) THEN [err |-> FALSE, m |-> m]
    ELSE NoMap

JSONMemberValue(s, k, v, acc) ==
    IF v.err THEN NoMap ELSE JSONMemberEnd(s, SkipWS(s, v.next), MapPut(acc, k.str, v))

JSONMemberColon(s, k, c, acc) ==
    IF c > Len(s) \/ s[c] # 58 THEN NoMap
    ELSE JSONMemberValue(s, k, JSONValue(s, SkipWS(s, c + 1)), acc)

JSONMemberKey(s, k, acc) ==
    IF k.err \/ k.kind # "string" THEN NoMap
    ELSE JSONMemberColon(s, k, SkipWS(s, k.next), acc)

JSONMembers(s, i, acc) == JSONMemberKey(s, JSONValue(s, SkipWS(s, i)), acc)

\* The document from its first non-blank byte, at index i.
JSONObject(s, i) ==
    IF At(s, i, <<110, 117, 108, 108>>) /\ SkipWS(s, i + 4) > Len(s)
    THEN [err |-> FALSE, m |-> << >>]
    ELSE IF i > Len(s) \/ s[i] # 123 THEN NoMap
    ELSE IF SkipWS(s, i + 1) <= Len(s) /\ s[SkipWS(s, i + 1)] = 125
    THEN IF SkipWS(s, SkipWS(s, i + 1) + 1) > Len(s)
         THEN [err |-> FALSE, m |-> << >>] ELSE NoMap
    ELSE JSONMembers(s, i + 1, << >>)

\* json.Unmarshal(payload, &m) with m a map[string]any: "null" leaves the map
\* nil without an error.
JSONUnmarshal(s) == JSONObject(s, SkipWS(s, 1))

(***************************************************************************)
(* validate.go.  An error is reported by its message, "nil" for none.      *)
(***************************************************************************)

VmessPrefix == <<118, 109, 101, 115, 115, 58, 47, 47>>

VlessPrefix == <<118, 108, 101, 115, 115, 58, 47, 47>>

TrojanPrefix == <<116, 114, 111, 106, 97, 110, 58, 47, 47>>

SSPrefix == <<115, 115, 58, 47, 47>>

\* The JSON keys "add", "port" and "id".
KeyAdd == <<97, 100, 100>>

KeyPort == <<112, 111, 114, 116>>

KeyId == <<105, 100>>

\* decodeVmessBase64, the text trimmed: '-' and '_' are mapped back to '+'
\* and '/', the padding is restored, the result is decoded.
DecodePadded(t) ==
    B64Decode([i \in 1..(Len(t) + ((4 - (Len(t) % 4)) % 4)) |->
                  IF i > Len(t) THEN 61
                  ELSE IF t[i] = 45 THEN 43
                  ELSE IF t[i] = 95 THEN 47
                  ELSE t[i]])

DecodeTrimmed(t) == IF t = << >> THEN [err |-> TRUE, val |-> << >>] ELSE DecodePadded(t)

decodeVmessBase64(b64) == DecodeTrimmed(TrimSpace(b64))

\* extractPortFromJSON: a string goes through Atoi, a number is truncated to
\* int, anything else (a missing key included) is an error.
extractPortFromJSON(v) ==
    IF v.kind = "string"
    THEN IF v.str = << >> THEN [err |-> TRUE, val |-> 0] ELSE Atoi(v.str)
    ELSE IF v.kind = "number" THEN [err |-> FALSE, val |-> v.num]
    ELSE [err |-> TRUE, val |-> 0]

\* The payload of a vmess line: after the prefix, before an optional '#',
\* trimmed.
VmessPayload(line) ==
    TrimSpace(Before(Drop(line, Len(VmessPrefix) + 1),
                     IndexByte(Drop(line, Len(VmessPrefix) + 1), 35)))

\* validateVmess, the JSON decoded: add, port and id are checked in turn.
ValidateVmessFields(add, port, id) ==
    IF add.kind # "string" \/ TrimSpace(add.str) = << >> THEN "vmess: missing add (server)"
    ELSE IF port.err THEN "vmess: port"
    ELSE IF port.val <= 0 \/ port.val > 99999 THEN "vmess: invalid port"
    ELSE IF id.kind # "string" \/ TrimSpace(id.str) = << >> THEN "vmess: missing id (UUID)"
    ELSE "nil"

ValidateVmessDoc(doc) ==
    IF doc.err THEN "vmess json"
    ELSE ValidateVmessFields(MapGet(doc.m, KeyAdd),
                             extractPortFromJSON(MapGet(doc.m, KeyPort)),
                             MapGet(doc.m, KeyId))

ValidateVmessPayload(payload) ==
    IF payload.err THEN "vmess base64 decode"
    ELSE ValidateVmessDoc(JSONUnmarshal(payload.val))

ValidateVmessRaw(raw) ==
    IF raw = << >> THEN "vmess: empty payload after trimming fragment"
    ELSE ValidateVmessPayload(decodeVmessBase64(raw))

validateVmess(line) == ValidateVmessRaw(VmessPayload(line))

parsePort(p) ==
    IF p = << >> THEN [err |-> TRUE, val |-> 0] ELSE Atoi(p)

\* The checks validateVless, validateTrojan and validateShadowsocks share,
\* the URL parsed: it has a host, a port in 1..65535 and a user name.
ValidatePort(u, port, missingUser) ==
    IF port.err THEN "missing or unparsable port"
    ELSE IF port.val <= 0 \/ port.val > 65535 THEN "invalid port"
    ELSE IF ~u.hasUser \/ TrimSpace(u.username) = << >> THEN missingUser
    ELSE "nil"

ValidateParsed(u, missingUser) ==
    IF u.err THEN "parse"
    ELSE IF Hostname(u) = << >> THEN "missing host"
    ELSE ValidatePort(u, parsePort(Port(u)), missingUser)

validateVless(line) == ValidateParsed(ParseURL(line), "missing user/id in vless url")

validateTrojan(line) ==
    ValidateParsed(ParseURL(line), "missing trojan password in user part")

\* decodeSSUserInfo: the method is what precedes the first ':' of the base64
\* decoded user info when that decodes and holds a ':', of the raw one else.
SSMethod(user, dec) ==
    IF ~dec.err /\ IndexByte(dec.val, 58) # 0
    THEN SubSeq(dec.val, 1, IndexByte(dec.val, 58) - 1)
    ELSE Before(user, IndexByte(user, 58))

decodeSSUserInfo(user) == SSMethod(user, B64Decode(user))

ValidateSSParsed(u, e) ==
    IF e # "nil" THEN e
    ELSE IF decodeSSUserInfo(u.username) = << >> THEN "empty encryption method"
    ELSE "nil"

ValidateSSURL(u) ==
    ValidateSSParsed(u, ValidateParsed(u, "missing userinfo (method:password)"))

validateShadowsocks(line) == ValidateSSURL(ParseURL(line))

validateLine(line) ==
    IF HasPrefix(line, VmessPrefix) THEN validateVmess(line)
    ELSE IF HasPrefix(line, VlessPrefix) THEN validateVless(line)
    ELSE IF HasPrefix(line, TrojanPrefix) THEN validateTrojan(line)
    ELSE IF HasPrefix(line, SSPrefix) THEN validateShadowsocks(line)
    ELSE "unsupported or unexpected scheme"

\* filterValidLines, the head line trimmed.
RECURSIVE filterValidLines(_)
KeepValid(line, rest) ==
    IF line = << >> \/ validateLine(line) # "nil"
    THEN filterValidLines(rest)
    ELSE <<line>> \o filterValidLines(rest)

\* filterValidLines: the trimmed, non-empty lines that validateLine accepts,
\* in input order.
filterValidLines(ls) ==
    IF ls = << >> THEN << >> ELSE KeepValid(TrimSpace(Head(ls)), Tail(ls))

(***************************************************************************)
(* probe.go: extractHostPort                                               *)
(***************************************************************************)

NoEndpoint == [err |-> TRUE, host |-> << >>, port |-> 0]

\* The vless, trojan and ss case, the URL parsed.
ExtractPort(h, p) ==
    IF p.err THEN NoEndpoint ELSE [err |-> FALSE, host |-> h, port |-> p.val]

ExtractHostAndPort(h, pStr) ==
    IF h = << >> \/ pStr = << >> THEN NoEndpoint ELSE ExtractPort(h, Atoi(pStr))

ExtractURL(u) ==
    IF u.err THEN NoEndpoint ELSE ExtractHostAndPort(Hostname(u), Port(u))

\* The vmess case, the payload cut out.
ExtractVmessFields(add, p) ==
    IF add.kind # "string" \/ TrimSpace(add.str) = << >> THEN NoEndpoint
    ELSE IF p.err THEN NoEndpoint
    ELSE [err |-> FALSE, host |-> add.str, port |-> p.val]

ExtractVmessDoc(doc) ==
    IF doc.err THEN NoEndpoint
    ELSE ExtractVmessFields(MapGet(doc.m, KeyAdd),
                            extractPortFromJSON(MapGet(doc.m, KeyPort)))

ExtractVmessPayload(payload) ==
    IF payload.err THEN NoEndpoint ELSE ExtractVmessDoc(JSONUnmarshal(payload.val))

ExtractVmessRaw(raw) ==
    IF raw = << >> THEN NoEndpoint ELSE ExtractVmessPayload(decodeVmessBase64(raw))

ExtractTrimmed(line) ==
    IF HasPrefix(line, VlessPrefix) \/ HasPrefix(line, TrojanPrefix)
          \/ HasPrefix(line, SSPrefix)
    THEN ExtractURL(ParseURL(line))
    ELSE IF HasPrefix(line, VmessPrefix) THEN ExtractVmessRaw(VmessPayload(line))
    ELSE NoEndpoint

extractHostPort(line) == ExtractTrimmed(TrimSpace(line))

(***************************************************************************)
(* The lines the model draws its inputs from                               *)
(***************************************************************************)

\* "vless://u@1.2.3.4:443"
LineA4 ==
    <<118, 108, 101, 115, 115, 58, 47, 47, 117, 64, 49, 46, 50, 46, 51, 46, 52,
      58, 52, 52, 51>>

\* "trojan://p@[2001:db8::1]:443"
LineB6 ==
    <<116, 114, 111, 106, 97, 110, 58, 47, 47, 112, 64, 91, 50, 48, 48, 49, 58,
      100, 98, 56, 58, 58, 49, 93, 58, 52, 52, 51>>

\* "vmess://eyJhZGQiOiI1LjYuNy44IiwicG9ydCI6NDQzLCJpZCI6InUifQ"
LineVmess ==
    <<118, 109, 101, 115, 115, 58, 47, 47, 101, 121, 74, 104, 90, 71, 81, 105,
      79, 105, 73, 49, 76, 106, 89, 117, 78, 121, 52, 52, 73, 105, 119, 105, 99,
      71, 57, 121, 100, 67, 73, 54, 78, 68, 81, 122, 76, 67, 74, 112, 90, 67, 73,
      54, 73, 110, 85, 105, 102, 81>>

\* "vless://@1.2.3.4:443"
LineNoUser ==
    <<118, 108, 101, 115, 115, 58, 47, 47, 64, 49, 46, 50, 46, 51, 46, 52, 58,
      52, 52, 51>>

\* "vless://u@9.9.9.9:0"
LinePort0 ==
    <<118, 108, 101, 115, 115, 58, 47, 47, 117, 64, 57, 46, 57, 46, 57, 46, 57,
      58, 48>>

\* " vless://u@1.2.3.4:443 "
LinePadded ==
    <<32, 118, 108, 101, 115, 115, 58, 47, 47, 117, 64, 49, 46, 50, 46, 51, 46,
      52, 58, 52, 52, 51, 32>>

\* "  "
LineBlank ==
    <<32, 32>>

\* "x"
LineOther ==
    <<120>>

\* A vmess line whose document holds the port 70000:
\* {"add":"5.6.7.8","port":70000,"id":"u"}
LineVmessOver ==
    <<118, 109, 101, 115, 115, 58, 47, 47, 101, 121, 74, 104, 90, 71, 81,
      105, 79, 105, 73, 49, 76, 106, 89, 117, 78, 121, 52, 52, 73, 105, 119,
      105, 99, 71, 57, 121, 100, 67, 73, 54, 78, 122, 65, 119, 77, 68, 65,
      115, 73, 109, 108, 107, 73, 106, 111, 105, 100, 83, 74, 57>>

\* A vmess line whose document holds the port as a string:
\* {"add":"5.6.7.8","port":"443","id":"u"}
LineVmessText ==
    <<118, 109, 101, 115, 115, 58, 47, 47, 101, 121, 74, 104, 90, 71, 81,
      105, 79, 105, 73, 49, 76, 106, 89, 117, 78, 121, 52, 52, 73, 105, 119,
      105, 99, 71, 57, 121, 100, 67, 73, 54, 73, 106, 81, 48, 77, 121, 73,
      115, 73, 109, 108, 107, 73, 106, 111, 105, 100, 83, 74, 57>>

\* A vmess line whose document holds the port as a fraction:
\* {"add":"5.6.7.8","port":443.5,"id":"u"}
LineVmessFloat ==
    <<118, 109, 101, 115, 115, 58, 47, 47, 101, 121, 74, 104, 90, 71, 81,
      105, 79, 105, 73, 49, 76, 106, 89, 117, 78, 121, 52, 52, 73, 105, 119,
      105, 99, 71, 57, 121, 100, 67, 73, 54, 78, 68, 81, 122, 76, 106, 85,
      115, 73, 109, 108, 107, 73, 106, 111, 105, 100, 83, 74, 57>>

\* All the sequences over S of length at most n.
SeqsUpTo(S, n) == UNION {[1..k -> S] : k \in 0..n}

\* The endpoint a line names.
EndpointOf(l) ==
    [host |-> extractHostPort(l).host, port |-> extractHostPort(l).port]

\* The endpoints that may or may not accept a connection.
Endpoints == {EndpointOf(LineA4), EndpointOf(LineB6)}

\* Every line of the catalogue.
Catalogue ==
    {LineA4, LineB6, LineVmess, LineNoUser, LinePort0, LinePadded, LineBlank,
     LineOther, LineVmessOver, LineVmessText, LineVmessFloat}

\* extractHostPort is a function of the line alone: its value for every line
\* of the catalogue, trimmed as the dispatcher hands lines on.
Extracted == [l \in {TrimSpace(c) : c \in Catalogue} |-> extractHostPort(l)]

(***************************************************************************)
(* State                                                                   *)
(***************************************************************************)

VARIABLES
    \* filterReachableLines (probe.go)
    lines,          \* the argument lines
    argConcurrent,  \* the argument maxConcurrent as passed
    maxConcurrent,  \* the local maxConcurrent, after the default is applied
    up,             \* the environment: the endpoints that accept a TCP connection
    fpc,            \* where the calling goroutine stands in the function
    spawned,        \* the loop counter i of the loop that starts the workers
    wg,             \* the WaitGroup counter
    workers,        \* the running worker goroutines: a bag of [pc, it]
    dpc,            \* the dispatcher goroutine: "none", "loop" or "done"
    di,             \* the dispatcher's loop counter i
    limit,          \* the dispatcher's limit
    closed,         \* whether the channel in is closed
    mu,             \* whether the mutex mu is held
    reachable,      \* the slice reachable
    nsent,          \* history: how many items were sent on the channel in
    \* the file system
    fs,             \* the files: path -> content
    dirs,           \* the directories under the output directory
    seen,           \* what a concurrent reader last found at the destination
    \* writeBase64Atomic (main.go)
    wpc,            \* where the call stands
    wpath,          \* the argument path
    wlines,         \* the argument lines
    wbuf,           \* the content of the bufio.Writer
    wi,             \* the loop counter i of the retry loop
    werr,           \* the error returned, "nil" for none
    prev,           \* history: the destination when the call began
    renames,        \* history: the outcome of each os.Rename of the call
    sleeps,         \* history: the durations slept, in milliseconds
    \* main (main.go)
    mpc,            \* where main stands in the turn of its loop
    si,             \* the index of the subscription being processed
    normal,         \* the local normal
    lite,           \* the local lite
    ipv4,           \* the local ipv4
    ipv6,           \* the local ipv6
    \* a function called on its own
    arg,            \* the arguments of the call
    ret             \* what the call has returned

probeVars ==
    <<lines, argConcurrent, maxConcurrent, up, fpc, spawned, wg, workers, dpc, di,
      limit, closed, mu, reachable, nsent>>

fsVars == <<fs, dirs, seen>>

exportVars == <<wpc, wpath, wlines, wbuf, wi, werr, prev, renames, sleeps>>

mainVars == <<mpc, si, normal, lite, ipv4, ipv6>>

callVars == <<arg, ret>>

vars == <<probeVars, fsVars, exportVars, mainVars, callVars>>

(***************************************************************************)
(* probe.go: filterReachableLines                                          *)
(***************************************************************************)

maxToTest == 1000

DefaultConcurrent == 20

NoItem == [idx |-> -1, line |-> << >>]

Idle == [pc |-> "recv", it |-> NoItem]

\* The worker bag with one worker in state w replaced by one in state v.
Moved(w, v) == (workers (-) SetToBag({w})) (+) SetToBag({v})

\* The number of workers whose pc is in pcs.
NumAt(pcs) ==
    LET at == {w \in BagToSet(workers) : w.pc \in pcs}
    IN  IF at = {} THEN 0 ELSE BagCardinality([w \in at |-> workers[w]])

\* The connection attempts in flight: the workers inside net.DialTimeout.
InFlight == NumAt({"dial"})

\* A variant that replaces only a negative maxConcurrent.
EffectiveConcurrentZeroKept(n) == IF n < 0 THEN DefaultConcurrent ELSE n

\* if maxConcurrent <= 0 { maxConcurrent = 20 }
EffectiveConcurrent(n) == IF n <= 0 THEN DefaultConcurrent ELSE n

\* A variant without the cap.
DispatchLimitUncapped(n) == n

\* limit := len(lines); if limit > maxToTest { limit = maxToTest }
DispatchLimit(n) == IF n > maxToTest THEN maxToTest ELSE n

\* The worker's test after extractHostPort: an error, an empty host or a
\* zero port skips the line.
Skipped(ep) == ep.err \/ ep.host = << >> \/ ep.port = 0

\* A variant that takes every attempt on a TCP port for a connection.
DialOKErrorDropped(ep) == ep.port >= 1 /\ ep.port <= 65535

\* net.DialTimeout("tcp", JoinHostPort(host, port), timeout) succeeds: the
\* port is a TCP port and the endpoint accepts the connection.
DialOK(ep) ==
    /\ ep.port >= 1 /\ ep.port <= 65535
    /\ [host |-> ep.host, port |-> ep.port] \in up

\* The state of the locals when the function is entered with the given
\* arguments: in, wg, reachable and mu are fresh.
ProbeEntry(ls, mc) ==
    /\ lines' = ls
    /\ argConcurrent' = mc
    /\ maxConcurrent' = mc
    /\ fpc' = "start"
    /\ spawned' = 0
    /\ wg' = 0
    /\ workers' = EmptyBag
    /\ dpc' = "none"
    /\ di' = 0
    /\ limit' = 0
    /\ closed' = FALSE
    /\ mu' = FALSE
    /\ reachable' = << >>
    /\ nsent' = 0

\* The locals of the function are gone: no call is under way.
ProbeCleared ==
    /\ lines' = << >>
    /\ argConcurrent' = 0
    /\ maxConcurrent' = 0
    /\ fpc' = "idle"
    /\ spawned' = 0
    /\ wg' = 0
    /\ workers' = EmptyBag
    /\ dpc' = "none"
    /\ di' = 0
    /\ limit' = 0
    /\ closed' = FALSE
    /\ mu' = FALSE
    /\ reachable' = << >>
    /\ nsent' = 0

\* The default for maxConcurrent and wg.Add(maxConcurrent).
ProbeStart ==
    /\ fpc = "start"
    /\ maxConcurrent' = EffectiveConcurrent(maxConcurrent)
    /\ wg' = wg + EffectiveConcurrent(maxConcurrent)
    /\ fpc' = "spawn"
    /\ UNCHANGED <<fsVars, exportVars, mainVars, callVars>>
    /\ UNCHANGED <<lines, argConcurrent, up, spawned, workers, dpc, di, limit, closed,
                   mu, reachable, nsent>>

\* One turn of the loop  for i := 0; i < maxConcurrent; i++ { go worker() }.
SpawnWorker ==
    /\ fpc = "spawn"
    /\ spawned < maxConcurrent
    /\ workers' = workers (+) SetToBag({Idle})
    /\ spawned' = spawned + 1
    /\ UNCHANGED <<fsVars, exportVars, mainVars, callVars>>
    /\ UNCHANGED <<lines, argConcurrent, maxConcurrent, up, fpc, wg, dpc, di, limit,
                   closed, mu, reachable, nsent>>

\* The loop is over: the dispatcher goroutine is started and computes its
\* limit; the caller goes on to wg.Wait().
SpawnDispatcher ==
    /\ fpc = "spawn"
    /\ spawned >= maxConcurrent
    /\ dpc' = "loop"
    /\ di' = 0
    /\ limit' = DispatchLimit(Len(lines))
    /\ fpc' = "wait"
    /\ UNCHANGED <<fsVars, exportVars, mainVars, callVars>>
    /\ UNCHANGED <<lines, argConcurrent, maxConcurrent, up, spawned, wg, workers,
                   closed, mu, reachable, nsent>>

\* The dispatcher skips a line that is empty once trimmed.
DispatchSkip ==
    /\ dpc = "loop"
    /\ di < limit
    /\ TrimSpace(lines[di + 1]) = << >>
    /\ di' = di + 1
    /\ UNCHANGED <<fsVars, exportVars, mainVars, callVars>>
    /\ UNCHANGED <<lines, argConcurrent, maxConcurrent, up, fpc, spawned, wg, workers,
                   dpc, limit, closed, mu, reachable, nsent>>

\* The channel is unbuffered: the send  in <- item{idx: i, line: l}  and a
\* worker's receive are one step.  The worker then extracts the endpoint and
\* either goes on to dial or takes the next turn of its loop.
WorkerRecv ==
    /\ dpc = "loop"
    /\ di < limit
    /\ ~closed
    /\ TrimSpace(lines[di + 1]) # << >>
    /\ BagIn(Idle, workers)
    /\ LET it == [idx |-> di, line |-> TrimSpace(lines[di + 1])]
       IN  workers' = IF Skipped(Extracted[it.line])
                      THEN workers
                      ELSE Moved(Idle, [pc |-> "dial", it |-> it])
    /\ di' = di + 1
    /\ nsent' = nsent + 1
    /\ UNCHANGED <<fsVars, exportVars, mainVars, callVars>>
    /\ UNCHANGED <<lines, argConcurrent, maxConcurrent, up, fpc, spawned, wg, dpc,
                   limit, closed, mu, reachable>>

\* A variant in which the dispatcher ends without close(in).
DispatchCloseForgotten ==
    /\ dpc = "loop"
    /\ di >= limit
    /\ dpc' = "done"
    /\ UNCHANGED <<fsVars, exportVars, mainVars, callVars>>
    /\ UNCHANGED <<lines, argConcurrent, maxConcurrent, up, fpc, spawned, wg, workers,
                   di, limit, closed, mu, reachable, nsent>>

\* close(in) after the last turn of the dispatcher's loop.
DispatchClose ==
    /\ dpc = "loop"
    /\ di >= limit
    /\ closed' = TRUE
    /\ dpc' = "done"
    /\ UNCHANGED <<fsVars, exportVars, mainVars, callVars>>
    /\ UNCHANGED <<lines, argConcurrent, maxConcurrent, up, fpc, spawned, wg, workers,
                   di, limit, mu, reachable, nsent>>

\* net.DialTimeout returns: on an error the worker takes the next turn of
\* its loop, else it closes the connection and goes on to mu.Lock().
WorkerDial ==
    \E w \in BagToSet(workers) :
        /\ w.pc = "dial"
        /\ workers' = IF DialOK(Extracted[w.it.line])
                      THEN Moved(w, [w EXCEPT !.pc = "lock"])
                      ELSE Moved(w, Idle)
        /\ UNCHANGED <<fsVars, exportVars, mainVars, callVars>>
        /\ UNCHANGED <<lines, argConcurrent, maxConcurrent, up, fpc, spawned, wg, dpc,
                       di, limit, closed, mu, reachable, nsent>>

\* A variant whose lock is taken whether it is held or not.
WorkerLockUnguarded ==
    \E w \in BagToSet(workers) :
        /\ w.pc = "lock"
        /\ mu' = TRUE
        /\ workers' = Moved(w, [w EXCEPT !.pc = "append"])
        /\ UNCHANGED <<fsVars, exportVars, mainVars, callVars>>
        /\ UNCHANGED <<lines, argConcurrent, maxConcurrent, up, fpc, spawned, wg, dpc,
                       di, limit, closed, reachable, nsent>>

\* mu.Lock()
WorkerLock ==
    \E w \in BagToSet(workers) :
        /\ w.pc = "lock"
        /\ ~mu
        /\ mu' = TRUE
        /\ workers' = Moved(w, [w EXCEPT !.pc = "append"])
        /\ UNCHANGED <<fsVars, exportVars, mainVars, callVars>>
        /\ UNCHANGED <<lines, argConcurrent, maxConcurrent, up, fpc, spawned, wg, dpc,
                       di, limit, closed, reachable, nsent>>

\* reachable = append(reachable, it.line)
WorkerAppend ==
    \E w \in BagToSet(workers) :
        /\ w.pc = "append"
        /\ reachable' = Append(reachable, w.it.line)
        /\ workers' = Moved(w, [w EXCEPT !.pc = "unlock"])
        /\ UNCHANGED <<fsVars, exportVars, mainVars, callVars>>
        /\ UNCHANGED <<lines, argConcurrent, maxConcurrent, up, fpc, spawned, wg, dpc,
                       di, limit, closed, mu, nsent>>

\* mu.Unlock(), and the next turn of the worker's loop.
WorkerUnlock ==
    \E w \in BagToSet(workers) :
        /\ w.pc = "unlock"
        /\ mu' = FALSE
        /\ workers' = Moved(w, Idle)
        /\ UNCHANGED <<fsVars, exportVars, mainVars, callVars>>
        /\ UNCHANGED <<lines, argConcurrent, maxConcurrent, up, fpc, spawned, wg, dpc,
                       di, limit, closed, reachable, nsent>>

\* A variant in which a worker that finds no item ends without the close.
WorkerExitEarly ==
    /\ BagIn(Idle, workers)
    /\ workers' = workers (-) SetToBag({Idle})
    /\ wg' = wg - 1
    /\ UNCHANGED <<fsVars, exportVars, mainVars, callVars>>
    /\ UNCHANGED <<lines, argConcurrent, maxConcurrent, up, fpc, spawned, dpc, di,
                   limit, closed, mu, reachable, nsent>>

\* The range over the closed channel ends; the deferred wg.Done() runs.
WorkerExit ==
    /\ closed
    /\ BagIn(Idle, workers)
    /\ workers' = workers (-) SetToBag({Idle})
    /\ wg' = wg - 1
    /\ UNCHANGED <<fsVars, exportVars, mainVars, callVars>>
    /\ UNCHANGED <<lines, argConcurrent, maxConcurrent, up, fpc, spawned, dpc, di,
                   limit, closed, mu, reachable, nsent>>

\* wg.Wait() returns and the function returns reachable.
ProbeReturn ==
    /\ fpc = "wait"
    /\ wg = 0
    /\ fpc' = "returned"
    /\ UNCHANGED <<fsVars, exportVars, mainVars, callVars>>
    /\ UNCHANGED <<lines, argConcurrent, maxConcurrent, up, spawned, wg, workers, dpc,
                   di, limit, closed, mu, reachable, nsent>>

ProbeStep ==
    \/ ProbeStart
    \/ SpawnWorker
    \/ SpawnDispatcher
    \/ DispatchSkip
    \/ WorkerRecv
    \/ DispatchClose
    \/ WorkerDial
    \/ WorkerLock
    \/ WorkerAppend
    \/ WorkerUnlock
    \/ WorkerExit
    \/ ProbeReturn

(***************************************************************************)
(* main.go: the helpers of the pipeline                                    *)
(***************************************************************************)

Range(s) == {s[i] : i \in 1..Len(s)}

\* dedupe: the trimmed, non-empty lines, each kept at its first occurrence.
RECURSIVE DedupeFrom(_, _)
DedupeFrom(in, seenSoFar) ==
    IF in = << >> THEN << >>
    ELSE LET k == TrimSpace(Head(in))
         IN  IF k = << >> \/ k \in seenSoFar
             THEN DedupeFrom(Tail(in), seenSoFar)
             ELSE <<k>> \o DedupeFrom(Tail(in), seenSoFar \cup {k})

dedupe(in) == DedupeFrom(in, {})

LiteN == 100

\* A variant that takes the lines from the front of the list.
buildLiteHead(ls, n) ==
    LET n1 == IF n <= 0 THEN 100 ELSE n
        n2 == IF n1 > Len(ls) THEN Len(ls) ELSE n1
    IN  SubSeq(ls, 1, n2)

\* buildLiteTail: the last n lines, n replaced by 100 when it is not positive.
buildLiteTail(ls, n) ==
    LET n1 == IF n <= 0 THEN 100 ELSE n
        n2 == IF n1 > Len(ls) THEN Len(ls) ELSE n1
    IN  SubSeq(ls, Len(ls) - n2 + 1, Len(ls))

\* splitByIPVersion, the host cut at its first ':': "ipv6" when bracketed,
\* "ipv4" when it holds exactly three '.', "ipv6" otherwise.
HostFamily(host) ==
    IF HasPrefix(host, <<91>>) /\ HasSuffix(host, <<93>>) THEN "ipv6"
    ELSE IF CountByte(host, 46) = 3 THEN "ipv4"
    ELSE "ipv6"

\* The family splitByIPVersion gives a parsed line: "none" when url.Parse
\* fails or the host is empty.
URLFamily(u) ==
    IF u.err \/ u.host = << >> THEN "none"
    ELSE HostFamily(Before(u.host, IndexByte(u.host, 58)))

IPFamily(l) == URLFamily(ParseURL(l))

\* splitByIPVersion: the two buckets, each in input order.
splitByIPVersion(ls) ==
    [ipv4 |-> SelectSeq(ls, LAMBDA l : IPFamily(l) = "ipv4"),
     ipv6 |-> SelectSeq(ls, LAMBDA l : IPFamily(l) = "ipv6")]

\* sort.Strings: ascending in the bytewise order of the strings.
RECURSIVE SortStrings(_)
SortStrings(ls) ==
    IF ls = << >> THEN << >>
    ELSE LET least == CHOOSE i \in 1..Len(ls) :
                          \A j \in 1..Len(ls) : ~StrLess(ls[j], ls[i])
         IN  <<ls[least]>>
                 \o SortStrings(SubSeq(ls, 1, least - 1) \o SubSeq(ls, least + 1, Len(ls)))

\* strings.Join(lines, "\n")
RECURSIVE JoinLines(_)
JoinLines(ls) ==
    IF ls = << >> THEN << >>
    ELSE IF Len(ls) = 1 THEN ls[1]
    ELSE ls[1] \o <<10>> \o JoinLines(Tail(ls))

\* strings.Split(s, "\n"): always at least one piece.
RECURSIVE SplitLines(_)
SplitLines(s) ==
    LET nl == IndexByte(s, 10)
    IN  IF nl = 0 THEN <<s>>
        ELSE <<SubSeq(s, 1, nl - 1)>> \o SplitLines(Drop(s, nl + 1))

\* The bytes writeBase64Atomic writes for a line list.
Encoded(ls) == B64Encode(JoinLines(ls))

(***************************************************************************)
(* The file system                                                         *)
(***************************************************************************)

\* A variant that puts the files of every subscription in one directory.
PathOfShared(dir, base) == [dir |-> 1, base |-> base, tmp |-> FALSE]

\* A destination path: the directory of a subscription and a file name.
PathOf(dir, base) == [dir |-> dir, base |-> base, tmp |-> FALSE]

\* The name os.CreateTemp(dir, base+".*.tmp") gives the temporary file.
TmpOf(path) == [path EXCEPT !.tmp = TRUE]

Exists(f, path) == path \in DOMAIN f

\* The files f with path holding content.
WithFile(f, path, content) ==
    [q \in DOMAIN f \cup {path} |-> IF q = path THEN content ELSE f[q]]

\* The files f without path.
WithoutFile(f, path) == [q \in DOMAIN f \ {path} |-> f[q]]

\* What a reader that opens path finds: whether the file is there, and its
\* content.
Found(f, path) ==
    [read |-> TRUE, exists |-> Exists(f, path),
     data |-> IF Exists(f, path) THEN f[path] ELSE << >>]

NotRead == [read |-> FALSE, exists |-> FALSE, data |-> << >>]

(***************************************************************************)
(* main.go: writeBase64Sorted, writeBase64NoSort, writeBase64Atomic        *)
(***************************************************************************)

maxRetries == 6

\* A variant in which writeBase64Sorted does not sort.
ExportLinesUnsorted(ls, sorted) == ls

\* The lines writeBase64Atomic is given: writeBase64Sorted sorts a copy,
\* writeBase64NoSort passes the list on.
ExportLines(ls, sorted) == IF sorted THEN SortStrings(ls) ELSE ls

\* The state of the call when writeBase64Atomic is entered.
ExportEntry(path, ls, sorted) ==
    /\ wpc' = "create"
    /\ wpath' = path
    /\ wlines' = ExportLines(ls, sorted)
    /\ wbuf' = << >>
    /\ wi' = 0
    /\ werr' = "nil"
    /\ prev' = Found(fs, path)
    /\ renames' = << >>
    /\ sleeps' = << >>

\* The locals of the call are gone: no call is under way.
ExportCleared ==
    /\ wpc' = "idle"
    /\ wpath' = PathOf(0, "")
    /\ wlines' = << >>
    /\ wbuf' = << >>
    /\ wi' = 0
    /\ werr' = "nil"
    /\ prev' = NotRead
    /\ renames' = << >>
    /\ sleeps' = << >>

\* What a write that fails may leave in the file: nothing, or a part of data.
ShortWrites(data) == {<< >>, SubSeq(data, 1, Len(data) \div 2)}

\* os.CreateTemp: the temporary file exists and is empty, or the call
\* returns the error.
CreateTemp ==
    /\ wpc = "create"
    /\ \/ /\ fs' = WithFile(fs, TmpOf(wpath), << >>)
          /\ wpc' = "write"
          /\ werr' = werr
       \/ /\ fs' = fs
          /\ wpc' = "returned"
          /\ werr' = "create temp"
    /\ UNCHANGED <<probeVars, mainVars, callVars, dirs, seen>>
    /\ UNCHANGED <<wpath, wlines, wbuf, wi, prev, renames, sleeps>>

\* w.WriteString(encoded): the text is taken into the writer's buffer, or a
\* write to the file fails and the call goes on to close and remove the file.
WriteString ==
    /\ wpc = "write"
    /\ \/ /\ wbuf' = Encoded(wlines)
          /\ fs' = fs
          /\ wpc' = "flush"
          /\ werr' = werr
       \/ /\ \E part \in ShortWrites(Encoded(wlines)) :
                 fs' = WithFile(fs, TmpOf(wpath), part)
          /\ wbuf' = wbuf
          /\ wpc' = "cleanup"
          /\ werr' = "write"
    /\ UNCHANGED <<probeVars, mainVars, callVars, dirs, seen>>
    /\ UNCHANGED <<wpath, wlines, wi, prev, renames, sleeps>>

\* w.Flush(): the buffer reaches the file, or the write fails.
Flush ==
    /\ wpc = "flush"
    /\ \/ /\ fs' = WithFile(fs, TmpOf(wpath), wbuf)
          /\ wpc' = "close"
          /\ werr' = werr
       \/ /\ \E part \in ShortWrites(wbuf) :
                 fs' = WithFile(fs, TmpOf(wpath), part)
          /\ wpc' = "cleanup"
          /\ werr' = "flush"
    /\ UNCHANGED <<probeVars, mainVars, callVars, dirs, seen>>
    /\ UNCHANGED <<wpath, wlines, wbuf, wi, prev, renames, sleeps>>

\* tmpFile.Close()
CloseTemp ==
    /\ wpc = "close"
    /\ \/ /\ wpc' = "remove"
          /\ werr' = werr
       \/ /\ wpc' = "cleanup"
          /\ werr' = "close"
    /\ UNCHANGED <<probeVars, mainVars, fsVars, callVars>>
    /\ UNCHANGED <<wpath, wlines, wbuf, wi, prev, renames, sleeps>>

\* _ = os.Remove(path): the destination is removed, or the removal fails
\* (the file is held open elsewhere, or is not there) and the error is dropped.
RemoveDest ==
    /\ wpc = "remove"
    /\ \/ fs' = WithoutFile(fs, wpath)
       \/ fs' = fs
    /\ wpc' = "rename"
    /\ UNCHANGED <<probeVars, mainVars, callVars, dirs, seen>>
    /\ UNCHANGED <<wpath, wlines, wbuf, wi, werr, prev, renames, sleeps>>

\* A variant that retries after any error.
RenameVerdictAnyError(outcome, i) ==
    IF outcome = "ok" THEN "done"
    ELSE IF i < maxRetries - 1 THEN "retry"
    ELSE "giveup"

\* What the retry loop does with the outcome of os.Rename in turn i: "done"
\* on success, "retry" when the message says the destination is busy and
\* turns are left, "giveup" otherwise.
RenameVerdict(outcome, i) ==
    IF outcome = "ok" THEN "done"
    ELSE IF outcome = "busy" /\ i < maxRetries - 1 THEN "retry"
    ELSE "giveup"

\* time.Duration(200*(i+1)) * time.Millisecond, in milliseconds.
Backoff(i) == 200 * (i + 1)

\* A variant whose rename adds the temporary file's content to a destination
\* that is still there instead of replacing it.
RenameAppends ==
    /\ wpc = "rename"
    /\ \E outcome \in {"ok", "busy", "other"} :
          /\ renames' = Append(renames, outcome)
          /\ fs' = IF outcome = "ok"
                   THEN WithoutFile(WithFile(fs, wpath,
                                             Found(fs, wpath).data \o fs[TmpOf(wpath)]),
                                    TmpOf(wpath))
                   ELSE fs
          /\ wpc' = CASE RenameVerdict(outcome, wi) = "done" -> "returned"
                      [] RenameVerdict(outcome, wi) = "retry" -> "remove"
                      [] OTHER -> "cleanup"
          /\ werr' = IF RenameVerdict(outcome, wi) = "giveup" THEN "rename failed" ELSE werr
          /\ wi' = IF RenameVerdict(outcome, wi) = "retry" THEN wi + 1 ELSE wi
          /\ sleeps' = IF RenameVerdict(outcome, wi) = "retry"
                       THEN Append(sleeps, Backoff(wi)) ELSE sleeps
    /\ UNCHANGED <<probeVars, mainVars, callVars, dirs, seen>>
    /\ UNCHANGED <<wpath, wlines, wbuf, prev>>

\* os.Rename(tmpPath, path) and what follows it in the turn of the loop.  The
\* outcome is the environment's: "ok", "busy" (an error whose message names a
\* lock: used by another process, access is denied, sharing violation) or
\* "other" (any other error).
Rename ==
    /\ wpc = "rename"
    /\ \E outcome \in {"ok", "busy", "other"} :
          /\ renames' = Append(renames, outcome)
          /\ fs' = IF outcome = "ok"
                   THEN WithoutFile(WithFile(fs, wpath, fs[TmpOf(wpath)]), TmpOf(wpath))
                   ELSE fs
          /\ wpc' = CASE RenameVerdict(outcome, wi) = "done" -> "returned"
                      [] RenameVerdict(outcome, wi) = "retry" -> "remove"
                      [] OTHER -> "cleanup"
          /\ werr' = IF RenameVerdict(outcome, wi) = "giveup" THEN "rename failed" ELSE werr
          /\ wi' = IF RenameVerdict(outcome, wi) = "retry" THEN wi + 1 ELSE wi
          /\ sleeps' = IF RenameVerdict(outcome, wi) = "retry"
                       THEN Append(sleeps, Backoff(wi)) ELSE sleeps
    /\ UNCHANGED <<probeVars, mainVars, callVars, dirs, seen>>
    /\ UNCHANGED <<wpath, wlines, wbuf, prev>>

\* A variant of a failure path that returns without the removal.
TmpKept(f, tmp) == f

\* The files left when a failure path has run  _ = os.Remove(tmpPath).
TmpRemoved(f, tmp) == WithoutFile(f, tmp)

\* The end of every failure path after the temporary file was created:
\* the file is removed and the error returned.
Cleanup ==
    /\ wpc = "cleanup"
    /\ fs' = TmpRemoved(fs, TmpOf(wpath))
    /\ wpc' = "returned"
    /\ UNCHANGED <<probeVars, mainVars, callVars, dirs, seen>>
    /\ UNCHANGED <<wpath, wlines, wbuf, wi, werr, prev, renames, sleeps>>

\* Another process opens the destination of the running call and reads it.
ReaderRead ==
    /\ wpc \notin {"idle"}
    /\ seen' = Found(fs, wpath)
    /\ seen' # seen
    /\ UNCHANGED <<probeVars, mainVars, exportVars, callVars, fs, dirs>>

ExportStep ==
    \/ CreateTemp
    \/ WriteString
    \/ Flush
    \/ CloseTemp
    \/ RemoveDest
    \/ Rename
    \/ Cleanup

(***************************************************************************)
(* main.go: the loop of main over the subscriptions                        *)
(***************************************************************************)

\* The subscriptions of the configuration are numbered 1..NumSubs; the key of
\* a subscription, and so the name of its directory, is its number.
NumSubs == 2

\* main's third argument to filterReachableLines.
ProbeConcurrency == 50

Views == <<"normal", "lite", "ipv4", "ipv6">>

\* A variant that exports the validated lines, probed or not, as "normal".
ViewLinesUnprobed(view) ==
    CASE view = "normal" -> normal
      [] view = "lite" -> lite
      [] view = "ipv4" -> ipv4
      [] view = "ipv6" -> ipv6

\* The lines main exports under a view, and whether it exports them sorted.
ViewLines(view) ==
    CASE view = "normal" -> reachable
      [] view = "lite" -> lite
      [] view = "ipv4" -> ipv4
      [] view = "ipv6" -> ipv6

ViewSorted(view) == view # "lite"

\* normal := dedupe(valid); normal = filterValidLines(normal, sub.Key)
Validated(valid) == filterValidLines(dedupe(valid))

\* continue, or the end of the loop: the next subscription, if there is one.
\* The locals of the turn of the loop are gone.
NextSub ==
    /\ si' = si + 1
    /\ mpc' = IF si + 1 > NumSubs THEN "done" ELSE "fetch"
    /\ normal' = << >>
    /\ lite' = << >>
    /\ ipv4' = << >>
    /\ ipv6' = << >>
    /\ up' = up
    /\ ProbeCleared

\* must(err): log.Fatal ends the process.
Must(err, next) == IF err # "nil" THEN "fatal" ELSE next

MaxFeed == 2

\* What parseAndFilterLines may hand on for a subscription: items that start
\* with an allowed scheme, not yet deduplicated or validated.
Feeds == SeqsUpTo({LineA4, LineB6, LineNoUser}, MaxFeed)

\* A subscription: the fetch fails and the loop continues, or the lines are
\* deduplicated and validated; without a valid line the loop continues, else
\* filterReachableLines(normal, 2*time.Second, 50) is called.
MainFetch ==
    /\ mpc = "fetch"
    /\ \/ NextSub
       \/ \E valid \in Feeds :
             IF Validated(valid) = << >>
             THEN NextSub
             ELSE /\ normal' = Validated(valid)
                  /\ mpc' = "probe"
                  /\ ProbeEntry(normal', ProbeConcurrency)
                  /\ UNCHANGED <<up, si, lite, ipv4, ipv6>>
    /\ UNCHANGED <<fsVars, exportVars, callVars>>

\* A variant that goes on to the exports without a reachable line.
MainProbedNoSkip ==
    /\ mpc = "probe"
    /\ fpc = "returned"
    /\ lite' = buildLiteTail(reachable, LiteN)
    /\ ipv4' = splitByIPVersion(reachable).ipv4
    /\ ipv6' = splitByIPVersion(reachable).ipv6
    /\ mpc' = "mkdir"
    /\ fpc' = "idle"
    /\ UNCHANGED <<lines, argConcurrent, maxConcurrent, up, spawned, wg,
                   workers, dpc, di, limit, closed, mu, reachable, nsent>>
    /\ UNCHANGED <<si, normal>>
    /\ UNCHANGED <<fsVars, exportVars, callVars>>

\* filterReachableLines has returned: without a reachable line the loop
\* continues, else the lite tail and the two buckets are computed.
MainProbed ==
    /\ mpc = "probe"
    /\ fpc = "returned"
    /\ IF Len(reachable) = 0
       THEN NextSub
       ELSE /\ lite' = buildLiteTail(reachable, LiteN)
            /\ ipv4' = splitByIPVersion(reachable).ipv4
            /\ ipv6' = splitByIPVersion(reachable).ipv6
            /\ mpc' = "mkdir"
            /\ fpc' = "idle"
            /\ UNCHANGED <<lines, argConcurrent, maxConcurrent, up, spawned, wg,
                           workers, dpc, di, limit, closed, mu, reachable, nsent>>
            /\ UNCHANGED <<si, normal>>
    /\ UNCHANGED <<fsVars, exportVars, callVars>>

\* os.MkdirAll(keyDir, 0o755) and must(err).
MainMkdir ==
    /\ mpc = "mkdir"
    /\ \/ /\ dirs' = dirs \cup {si}
          /\ mpc' = Must("nil", Views[1])
       \/ /\ dirs' = dirs
          /\ mpc' = Must("mkdir", Views[1])
    /\ UNCHANGED <<probeVars, exportVars, callVars, fs, seen, si, normal, lite, ipv4, ipv6>>

\* The call of writeBase64Sorted or writeBase64NoSort for the view at hand.
MainWrite ==
    /\ mpc \in Range(Views)
    /\ wpc = "idle"
    /\ ExportEntry(PathOf(si, mpc), ViewLines(mpc), ViewSorted(mpc))
    /\ UNCHANGED <<probeVars, fsVars, mainVars, callVars>>

\* The view that follows view in main; the last one is followed by itself.
ViewAfter(view) ==
    Views[Min((CHOOSE k \in 1..Len(Views) : Views[k] = view) + 1, Len(Views))]

\* The call has returned: must(err), then the next view, or the next
\* subscription after the last one.
MainWritten ==
    /\ mpc \in Range(Views)
    /\ wpc = "returned"
    /\ ExportCleared
    /\ IF werr = "nil" /\ mpc = Views[Len(Views)]
       THEN NextSub
       ELSE /\ mpc' = Must(werr, ViewAfter(mpc))
            /\ UNCHANGED <<probeVars, si, normal, lite, ipv4, ipv6>>
    /\ UNCHANGED <<fsVars, callVars>>

MainStep ==
    \/ MainFetch
    \/ MainProbed
    \/ MainMkdir
    \/ MainWrite
    \/ MainWritten

(***************************************************************************)
(* validateLine and extractHostPort called on one line                     *)
(***************************************************************************)

\* The user parts of a URI line: none, "@" and "u@".
UserParts ==
    {<< >>,
     <<64>>,
     <<117, 64>>}

\* The host parts: what the line holds and the host it names.
HostParts ==
    {[text |-> << >>,
      name |-> << >>],
     [text |-> <<49, 46, 50, 46, 51, 46, 52>>,
      name |-> <<49, 46, 50, 46, 51, 46, 52>>],
     [text |-> <<91, 50, 48, 48, 49, 58, 100, 98, 56, 58, 58, 49, 93>>,
      name |-> <<50, 48, 48, 49, 58, 100, 98, 56, 58, 58, 49>>],
     [text |-> <<101, 120, 97, 109, 112, 108, 101, 46, 99, 111, 109>>,
      name |-> <<101, 120, 97, 109, 112, 108, 101, 46, 99, 111, 109>>]}

\* The port parts: what the line holds and the number it names.
PortParts ==
    {[text |-> << >>, num |-> 0],
     [text |-> <<58>>, num |-> 0],
     [text |-> <<58, 48>>, num |-> 0],
     [text |-> <<58, 52, 52, 51>>, num |-> 443],
     [text |-> <<58, 54, 53, 53, 51, 53>>, num |-> 65535],
     [text |-> <<58, 54, 53, 53, 51, 54>>, num |-> 65536],
     [text |-> <<58, 55, 48, 48, 48, 48>>, num |-> 70000],
     [text |-> <<58, 52, 97>>, num |-> 0]}

\* The lines of the schemes vless, trojan and ss put together from the parts,
\* each with the host and the port it names.
URILines ==
    {[fn |-> "line", uri |-> TRUE, line |-> scheme \o user \o host.text \o port.text,
      host |-> host.name, port |-> port.num] :
        scheme \in {VlessPrefix, TrojanPrefix, SSPrefix}, user \in UserParts,
        host \in HostParts, port \in PortParts}

\* The values of "add" and of "id" in a vmess document: "" and a value.
VmessAdds == {<< >>, <<53, 46, 54, 46, 55, 46, 56>>}

VmessIds == {<< >>, <<117>>}

\* The values of "port": 443, "443", 70000, 70000.9, 0, "x", 100000 and "".
VmessPorts ==
    {<<52, 52, 51>>,
     <<34, 52, 52, 51, 34>>,
     <<55, 48, 48, 48, 48>>,
     <<55, 48, 48, 48, 48, 46, 57>>,
     <<48>>,
     <<34, 120, 34>>,
     <<49, 48, 48, 48, 48, 48>>,
     <<34, 34>>}

\* {"add":"<add>","port":<port>,"id":"<id>"}
VmessDoc(add, port, id) ==
    <<123, 34, 97, 100, 100, 34, 58, 34>> \o add \o <<34, 44, 34, 112, 111, 114, 116, 34, 58>> \o port
        \o <<44, 34, 105, 100, 34, 58, 34>> \o id \o <<34, 125>>

\* {"add":"<add>","id":"<id>"}
VmessDocNoPort(add, id) ==
    <<123, 34, 97, 100, 100, 34, 58, 34>> \o add \o <<34, 44, 34, 105, 100, 34, 58, 34>> \o id \o <<34, 125>>

\* The vmess lines: the documents in base64, a payload that is no base64
\* ("vmess://!"), one that is no JSON object ("vmess://eA==") and none.
VmessLines ==
    {[fn |-> "line", uri |-> FALSE, line |-> VmessPrefix \o B64Encode(doc),
      host |-> << >>, port |-> 0] :
        doc \in {VmessDoc(add, port, id) :
                     add \in VmessAdds, port \in VmessPorts, id \in VmessIds}
                 \cup {VmessDocNoPort(add, id) : add \in VmessAdds, id \in VmessIds}}
        \cup {[fn |-> "line", uri |-> FALSE, line |-> VmessPrefix \o tail,
               host |-> << >>, port |-> 0] :
                 tail \in {<< >>, <<33>>, <<101, 65, 61, 61>>}}

\* Lines of no supported scheme: "x" and " vless://u@1.2.3.4:443 ".
OtherLines ==
    {[fn |-> "line", uri |-> FALSE, line |-> l, host |-> << >>, port |-> 0] :
        l \in {LineOther, LinePadded}}

LineCalls == URILines \cup VmessLines \cup OtherLines

\* No result yet of either function.
NoVerdict == [validated |-> FALSE, err |-> "nil", extracted |-> FALSE, ep |-> NoEndpoint]

\* err := validateLine(line)
CallValidateLine ==
    /\ arg.fn = "line"
    /\ ~ret.validated
    /\ ret' = [ret EXCEPT !.validated = TRUE, !.err = validateLine(arg.line)]
    /\ UNCHANGED <<probeVars, fsVars, exportVars, mainVars, arg>>

\* host, port, err := extractHostPort(line)
CallExtractHostPort ==
    /\ arg.fn = "line"
    /\ ~ret.extracted
    /\ ret' = [ret EXCEPT !.extracted = TRUE, !.ep = extractHostPort(arg.line)]
    /\ UNCHANGED <<probeVars, fsVars, exportVars, mainVars, arg>>

(***************************************************************************)
(* Specifications                                                          *)
(***************************************************************************)

MaxLen == 2

MaxConc == 2

MaxOver == 1

\* No call of filterReachableLines is under way.
ProbeIdle ==
    /\ lines = << >>
    /\ argConcurrent = 0
    /\ maxConcurrent = 0
    /\ fpc = "idle"
    /\ spawned = 0
    /\ wg = 0
    /\ workers = EmptyBag
    /\ dpc = "none"
    /\ di = 0
    /\ limit = 0
    /\ closed = FALSE
    /\ mu = FALSE
    /\ reachable = << >>
    /\ nsent = 0

\* No call of writeBase64Atomic is under way.
ExportIdle ==
    /\ wpc = "idle"
    /\ wpath = PathOf(0, "")
    /\ wlines = << >>
    /\ wbuf = << >>
    /\ wi = 0
    /\ werr = "nil"
    /\ prev = NotRead
    /\ renames = << >>
    /\ sleeps = << >>

\* No function is called on its own.
NoArg == [fn |-> "none"]

NoRet == [done |-> FALSE]

NoCall ==
    /\ arg = NoArg
    /\ ret = NoRet

\* main is not running.
MainOff ==
    /\ mpc = "off"
    /\ si = 0
    /\ normal = << >>
    /\ lite = << >>
    /\ ipv4 = << >>
    /\ ipv6 = << >>

\* A long input: more lines than the cap, with a reachable line at the last
\* position under the cap and another one at the first position beyond it.
LongInput(n) ==
    [i \in 1..n |-> IF i = maxToTest THEN LineA4
                    ELSE IF i = maxToTest + 1 THEN LineB6
                    ELSE LineOther]

ProbeInputs ==
    SeqsUpTo({LineA4, LineB6, LinePort0, LinePadded, LineBlank, LineOther}, MaxLen)
        \cup {LongInput(maxToTest + k) : k \in 0..MaxOver}

\* One call of filterReachableLines, on any input and any concurrency.
InitProbe ==
    /\ lines \in ProbeInputs
    /\ argConcurrent \in (-1)..MaxConc
    /\ maxConcurrent = argConcurrent
    /\ up \in SUBSET Endpoints
    /\ (Len(lines) > MaxLen => up = Endpoints)
    /\ fpc = "start"
    /\ spawned = 0
    /\ wg = 0
    /\ workers = EmptyBag
    /\ dpc = "none"
    /\ di = 0
    /\ limit = 0
    /\ closed = FALSE
    /\ mu = FALSE
    /\ reachable = << >>
    /\ nsent = 0
    /\ fs = << >>
    /\ dirs = {}
    /\ seen = NotRead
    /\ ExportIdle
    /\ MainOff
    /\ NoCall

NextProbe == ProbeStep

SpecProbe == InitProbe /\ [][NextProbe]_vars

\* The Go scheduler runs some goroutine that can run, and a connection
\* attempt finishes within its timeout: the call does not stand still while
\* one of its steps is possible.
SpecProbeFair == InitProbe /\ [][NextProbe]_vars /\ WF_vars(NextProbe)

\* What the destination may hold before the call: the export of an earlier
\* run.
PreviousExports == {Encoded(ls) : ls \in SeqsUpTo({LineA4, LineB6}, MaxLen)}

\* One call of writeBase64Sorted or writeBase64NoSort, on a destination that
\* is not there or holds a previous export, with another process that reads
\* the destination.
InitExport ==
    /\ ProbeIdle
    /\ up = {}
    /\ MainOff
    /\ dirs = {1}
    /\ seen = NotRead
    /\ \/ fs = << >>
       \/ \E old \in PreviousExports : fs = WithFile(<< >>, PathOf(1, "normal"), old)
    /\ wpc = "create"
    /\ wpath = PathOf(1, "normal")
    /\ \E ls \in SeqsUpTo({LineA4, LineB6}, MaxLen), sorted \in BOOLEAN :
          wlines = ExportLines(ls, sorted)
    /\ wbuf = << >>
    /\ wi = 0
    /\ werr = "nil"
    /\ prev = Found(fs, wpath)
    /\ renames = << >>
    /\ sleeps = << >>
    /\ NoCall

NextExport == ExportStep \/ ReaderRead

SpecExport == InitExport /\ [][NextExport]_vars

\* The networks of a run of main: any set of endpoints of the catalogue
\* accepts a connection.
MainNetworks == SUBSET Endpoints

\* One run of main over the subscriptions, into an empty output directory.

InitMain ==
    /\ ProbeIdle
    /\ up \in MainNetworks
    /\ fs = << >>
    /\ dirs = {}
    /\ seen = NotRead
    /\ ExportIdle
    /\ mpc = "fetch"
    /\ si = 1
    /\ normal = << >>
    /\ lite = << >>
    /\ ipv4 = << >>
    /\ ipv6 = << >>
    /\ NoCall

\* filterValidLines hands on no blank line: in main the dispatcher never skips.
ProbeStepInMain ==
    \/ ProbeStart
    \/ SpawnWorker
    \/ SpawnDispatcher
    \/ WorkerRecv
    \/ DispatchClose
    \/ WorkerDial
    \/ WorkerLock
    \/ WorkerAppend
    \/ WorkerUnlock
    \/ WorkerExit
    \/ ProbeReturn

NextMain == MainStep \/ ProbeStepInMain \/ ExportStep

SpecMain == InitMain /\ [][NextMain]_vars

\* What every file of an earlier run holds: the export of a line that no
\* subscription of this run brings.
EarlierExport == Encoded(<<LineVmess>>)

\* One run of main into the output directory an earlier run has left: the
\* directory and the four files of every subscription are there.
InitMainAgain ==
    /\ ProbeIdle
    /\ up \in MainNetworks
    /\ fs = [q \in {PathOf(k, Views[v]) : k \in 1..NumSubs, v \in 1..Len(Views)} |->
                EarlierExport]
    /\ dirs = 1..NumSubs
    /\ seen = NotRead
    /\ ExportIdle
    /\ mpc = "fetch"
    /\ si = 1
    /\ normal = << >>
    /\ lite = << >>
    /\ ipv4 = << >>
    /\ ipv6 = << >>
    /\ NoCall

SpecMainAgain == InitMainAgain /\ [][NextMain]_vars

\* The same export called a second time once the first call has returned
\* nil: ret keeps the files the first call left.
ExportAgain ==
    /\ arg.fn = "export"
    /\ ~ret.done
    /\ wpc = "returned"
    /\ werr = "nil"
    /\ ret' = [done |-> TRUE, fs |-> fs]
    /\ ExportEntry(wpath, arg.lines, arg.sorted)
    /\ UNCHANGED <<probeVars, fsVars, mainVars, arg>>

\* writeBase64Sorted or writeBase64NoSort called on a line list, the list and
\* the flag kept in arg, on a destination that is not there or holds a
\* previous export.
InitExportTwice ==
    /\ ProbeIdle
    /\ up = {}
    /\ MainOff
    /\ dirs = {1}
    /\ seen = NotRead
    /\ \/ fs = << >>
       \/ \E old \in PreviousExports : fs = WithFile(<< >>, PathOf(1, "normal"), old)
    /\ arg \in {[fn |-> "export", lines |-> ls, sorted |-> sorted] :
                   ls \in SeqsUpTo({LineA4, LineB6}, MaxLen), sorted \in BOOLEAN}
    /\ ret = NoRet
    /\ wpc = "create"
    /\ wpath = PathOf(1, "normal")
    /\ wlines = ExportLines(arg.lines, arg.sorted)
    /\ wbuf = << >>
    /\ wi = 0
    /\ werr = "nil"
    /\ prev = Found(fs, wpath)
    /\ renames = << >>
    /\ sleeps = << >>

NextExportTwice == ExportStep \/ ExportAgain

SpecExportTwice == InitExportTwice /\ [][NextExportTwice]_vars

\* Lists for buildLiteTail: short ones, duplicates included, and lists of
\* different lines around the default length of 100.
TailLists ==
    SeqsUpTo({<<97>>, <<98>>}, MaxLen + 1)
        \cup {[i \in 1..k |-> <<i>>] : k \in {LiteN - 1, LiteN, LiteN + 1}}

TailCounts == (0 - 1)..(MaxLen + 2) \cup {LiteN, LiteN + 1}

\* buildLiteTail called once; ret keeps the result and the list the caller
\* holds after the call.
CallBuildLiteTail ==
    /\ arg.fn = "tail"
    /\ ~ret.done
    /\ ret' = [done |-> TRUE, out |-> buildLiteTail(arg.lines, arg.n), normal |-> arg.lines]
    /\ UNCHANGED <<probeVars, fsVars, exportVars, mainVars, arg>>

InitTail ==
    /\ ProbeIdle
    /\ up = {}
    /\ fs = << >>
    /\ dirs = {}
    /\ seen = NotRead
    /\ ExportIdle
    /\ MainOff
    /\ arg \in {[fn |-> "tail", lines |-> ls, n |-> n] : ls \in TailLists, n \in TailCounts}
    /\ ret = NoRet

NextTail == CallBuildLiteTail

SpecTail == InitTail /\ [][NextTail]_vars

\* Lines for splitByIPVersion, each with the bucket the rule of the host
\* gives it: "none" when the line has no host that can be determined (the
\* parse fails or no host is there), "ipv6" for a bracketed host, and for any
\* other host "ipv4" when the host without its trailing :port holds exactly
\* three '.', "ipv6" when not.
SplitCases ==
    {
     \* vless://u@1.2.3.4:443
     [text |-> VlessPrefix \o <<117, 64>> \o <<49, 46, 50, 46, 51, 46, 52, 58, 52, 52, 51>>,
      want |-> "ipv4"],
     \* vless://u@1.2.3.4
     [text |-> VlessPrefix \o <<117, 64>> \o <<49, 46, 50, 46, 51, 46, 52>>,
      want |-> "ipv4"],
     \* vless://u@a.b.c.d:443
     [text |-> VlessPrefix \o <<117, 64>> \o <<97, 46, 98, 46, 99, 46, 100, 58, 52, 52, 51>>,
      want |-> "ipv4"],
     \* vless://u@[2001:db8::1]:443
     [text |-> VlessPrefix \o <<117, 64>> \o <<91, 50, 48, 48, 49, 58, 100, 98, 56, 58, 58, 49, 93, 58, 52, 52, 51>>,
      want |-> "ipv6"],
     \* vless://u@[2001:db8::1]
     [text |-> VlessPrefix \o <<117, 64>> \o <<91, 50, 48, 48, 49, 58, 100, 98, 56, 58, 58, 49, 93>>,
      want |-> "ipv6"],
     \* vless://u@example.com:443
     [text |-> VlessPrefix \o <<117, 64>> \o <<101, 120, 97, 109, 112, 108, 101, 46, 99, 111, 109, 58, 52, 52, 51>>,
      want |-> "ipv6"],
     \* vless://u@1.2.3.4:4a
     [text |-> VlessPrefix \o <<117, 64>> \o <<49, 46, 50, 46, 51, 46, 52, 58, 52, 97>>,
      want |-> "none"],
     \* vless://u@
     [text |-> VlessPrefix \o <<117, 64>> \o << >>,
      want |-> "none"],
     \* vless://u@:443
     [text |-> VlessPrefix \o <<117, 64>> \o <<58, 52, 52, 51>>,
      want |-> "none"],
     \* vless://u@::ffff:1.2.3.4:443
     [text |-> VlessPrefix \o <<117, 64>> \o <<58, 58, 102, 102, 102, 102, 58, 49, 46, 50, 46, 51, 46, 52, 58, 52, 52, 51>>,
      want |-> "ipv4"],
     \* vless://u@1.2.3.4:5.6:443
     [text |-> VlessPrefix \o <<117, 64>> \o <<49, 46, 50, 46, 51, 46, 52, 58, 53, 46, 54, 58, 52, 52, 51>>,
      want |-> "ipv6"],
     \* x
     [text |-> LineOther, want |-> "none"]}

\* The lines of a list of cases.
TextsOf(cs) == [i \in 1..Len(cs) |-> cs[i].text]

\* The lines of the cases wanted in bucket fam, in the order of the list.
Wanted(cs, fam) == TextsOf(SelectSeq(cs, LAMBDA c : c.want = fam))

\* splitByIPVersion called once on the lines of arg.
CallSplitByIPVersion ==
    /\ arg.fn = "split"
    /\ ~ret.done
    /\ ret' = [done |-> TRUE, out |-> splitByIPVersion(TextsOf(arg.cases))]
    /\ UNCHANGED <<probeVars, fsVars, exportVars, mainVars, arg>>

InitSplit ==
    /\ ProbeIdle
    /\ up = {}
    /\ fs = << >>
    /\ dirs = {}
    /\ seen = NotRead
    /\ ExportIdle
    /\ MainOff
    /\ arg \in {[fn |-> "split", cases |-> cs] : cs \in SeqsUpTo(SplitCases, MaxLen)}
    /\ ret = NoRet

NextSplit == CallSplitByIPVersion

SpecSplit == InitSplit /\ [][NextSplit]_vars

\* The lines of the catalogue that validateLine accepts.
ValidatedLines == {l \in Catalogue : validateLine(l) = "nil"}

\* One call of filterReachableLines on lines that passed validateLine.
InitProbeValidated ==
    /\ lines \in SeqsUpTo(ValidatedLines, MaxLen)
    /\ argConcurrent \in 1..MaxConc
    /\ maxConcurrent = argConcurrent
    /\ up \in SUBSET Endpoints
    /\ fpc = "start"
    /\ spawned = 0
    /\ wg = 0
    /\ workers = EmptyBag
    /\ dpc = "none"
    /\ di = 0
    /\ limit = 0
    /\ closed = FALSE
    /\ mu = FALSE
    /\ reachable = << >>
    /\ nsent = 0
    /\ fs = << >>
    /\ dirs = {}
    /\ seen = NotRead
    /\ ExportIdle
    /\ MainOff
    /\ NoCall

NextProbeValidated == ProbeStepInMain

SpecProbeValidated == InitProbeValidated /\ [][NextProbeValidated]_vars

\* validateLine and extractHostPort, each called once on one line.
InitLine ==
    /\ ProbeIdle
    /\ up = {}
    /\ fs = << >>
    /\ dirs = {}
    /\ seen = NotRead
    /\ ExportIdle
    /\ MainOff
    /\ arg \in LineCalls
    /\ ret = NoVerdict

NextLine == CallValidateLine \/ CallExtractHostPort

SpecLine == InitLine /\ [][NextLine]_vars

(***************************************************************************)
(* The properties of filterReachableLines                                  *)
(***************************************************************************)

\* C1: on every input and every concurrency value, when every connection
\* attempt finishes, filterReachableLines returns in the end; and when it has
\* returned the dispatcher has closed the channel and ended, every worker has
\* exited and no connection attempt is in flight.
C1_ReturnsWithNothingLeft ==
    /\ <>(fpc = "returned")
    /\ [](fpc = "returned" =>
            /\ closed
            /\ dpc = "done"
            /\ workers = EmptyBag
            /\ wg = 0
            /\ InFlight = 0)

\* A call on fewer lines than workers has returned a reachable line.
C1_Witness ==
    /\ fpc = "returned"
    /\ Len(lines) < spawned
    /\ Len(reachable) > 0
    /\ workers = EmptyBag

\* The endpoint was extracted and accepts a connection.
Connected(ep) ==
    /\ ~ep.err
    /\ ep.host # << >>
    /\ ep.port # 0
    /\ [host |-> ep.host, port |-> ep.port] \in up

\* C2: under every interleaving of the workers, every line of the result has
\* an endpoint that was extracted without error and that accepted the
\* connection of this call.
C2_OnlyConnectedLines ==
    \A k \in 1..Len(reachable) : Connected(extractHostPort(reachable[k]))

\* A call has returned some line of its input and left out another one.
C2_Witness ==
    /\ fpc = "returned"
    /\ Len(reachable) > 0
    /\ \E i \in 1..Len(lines) :
          /\ TrimSpace(lines[i]) # << >>
          /\ TrimSpace(lines[i]) \notin Range(reachable)

\* C3: at most 1000 lines are handed to the workers, no worker holds a line
\* of position 1000 or later (0-based), and every line of the result is the
\* line of one of the first 1000 positions.
C3_AtMostThousandProbed ==
    /\ nsent <= 1000
    /\ \A w \in BagToSet(workers) : w.it.idx < 1000
    /\ \A k \in 1..Len(reachable) :
          \E i \in 1..Min(Len(lines), 1000) : reachable[k] = TrimSpace(lines[i])

\* A call on more than 1000 lines has returned: the reachable line of
\* position 999 is in the result, the reachable line of position 1000 is not.
C3_Witness ==
    /\ fpc = "returned"
    /\ Len(lines) > 1000
    /\ LineA4 \in Range(reachable)
    /\ LineB6 \notin Range(reachable)

\* C4: the connection attempts in flight are at most maxConcurrent, 20 in
\* place of a value that is not positive; that many workers are started,
\* whatever the number of lines.
C4_BoundedByWorkers ==
    /\ InFlight <= (IF argConcurrent <= 0 THEN 20 ELSE argConcurrent)
    /\ BagCardinality(workers) <= (IF argConcurrent <= 0 THEN 20 ELSE argConcurrent)
    /\ (fpc \in {"wait", "returned"} =>
            spawned = (IF argConcurrent <= 0 THEN 20 ELSE argConcurrent))

\* As many connection attempts are in flight as there are workers.
C4_Witness ==
    /\ argConcurrent >= 2
    /\ InFlight = argConcurrent

(***************************************************************************)
(* The properties of writeBase64Atomic                                     *)
(***************************************************************************)

\* C5: during and after a call on a path that holds a previous export, also
\* after the call has returned an error, a reader of the path finds the
\* complete previous content or the complete new content, never a missing
\* or partly written file.
C5_ReaderFindsOldOrNew ==
    (prev.exists /\ seen.read) =>
        /\ seen.exists
        /\ seen.data \in {prev.data, Encoded(wlines)}

C7_RetriesAndBackoff ==
    /\ Len(renames) <= 6
    /\ \A k \in 1..Len(renames) - 1 : renames[k] = "busy"
    /\ \A k \in 1..Len(sleeps) : sleeps[k] = 200 * k
    /\ (wpc \in {"remove", "rename"} =>
            /\ Len(renames) <= 5
            /\ Len(sleeps) = Len(renames)
            /\ \A k \in 1..Len(renames) : renames[k] = "busy")
    /\ (wpc \in {"cleanup", "returned"} /\ renames # << >> =>
            /\ Len(sleeps) = Len(renames) - 1
            /\ (renames[Len(renames)] = "busy" => Len(renames) = 6)
            /\ (renames[Len(renames)] = "ok" <=> werr = "nil")
            /\ (renames[Len(renames)] # "ok" => werr = "rename failed")
            /\ (renames[Len(renames)] # "ok" => wpc = "cleanup" \/ ~Exists(fs, TmpOf(wpath))))

\* The rename has failed five times on a busy destination and succeeded at
\* the sixth try, after sleeps of 200, 400, 600, 800 and 1000 ms.
C7_Witness ==
    /\ wpc = "returned"
    /\ werr = "nil"
    /\ renames = <<"busy", "busy", "busy", "busy", "busy", "ok">>
    /\ sleeps = <<200, 400, 600, 800, 1000>>

(***************************************************************************)
(* The properties of the loop of main                                      *)
(***************************************************************************)

\* C8: an error of an export or of the creation of a directory does not end
\* the run: main ends only when every subscription of the list has had its
\* turn.
C8_ErrorsDoNotEndTheRun ==
    mpc \in {"done", "fatal"} => si > NumSubs

\* The reachable lines in the order of the validated list.
InInputOrder == SelectSeq(normal, LAMBDA l : l \in Range(reachable))

\* C9: for given validated lines and given endpoints that accept a
\* connection, the content written for each view is the same under every
\* interleaving of the workers: it is the content written when the workers
\* append in the order of the input.
C9_ViewsDoNotDependOnAppendOrder ==
    (mpc \in Range(Views) /\ wpc = "returned" /\ werr = "nil") =>
        fs[wpath] =
            Encoded(CASE mpc = "normal" -> SortStrings(InInputOrder)
                      [] mpc = "lite" -> buildLiteTail(InInputOrder, 100)
                      [] mpc = "ipv4" -> SortStrings(splitByIPVersion(InInputOrder).ipv4)
                      [] mpc = "ipv6" -> SortStrings(splitByIPVersion(InInputOrder).ipv6))

\* C10: every reachable line is a validated line, every line of the four
\* views is a reachable line, and every file written for the subscription
\* holds the lines of its view.
C10_StagesOnlyNarrow ==
    /\ \A k \in 1..Len(normal) : validateLine(normal[k]) = "nil"
    /\ Range(reachable) \subseteq Range(normal)
    /\ Range(lite) \subseteq Range(reachable)
    /\ Range(ipv4) \subseteq Range(reachable)
    /\ Range(ipv6) \subseteq Range(reachable)
    /\ (mpc \in Range(Views) /\ wpc # "idle" =>
            /\ Range(wlines) \subseteq Range(reachable)
            /\ (wpc = "returned" /\ werr = "nil" => fs[wpath] = Encoded(wlines)))

\* The last view of a subscription is written, and a validated line was
\* not reachable.
C10_Witness ==
    /\ mpc = "ipv6"
    /\ wpc = "returned"
    /\ werr = "nil"
    /\ Len(reachable) > 0
    /\ Len(reachable) < Len(normal)

(***************************************************************************)
(* The properties of validateLine and extractHostPort                      *)
(***************************************************************************)

\* C11: for every line, when validateLine returns an error extractHostPort
\* returns an error too; and for every vless, trojan or ss line that
\* validateLine accepts, extractHostPort returns the host and the port of
\* the line.
C11_ExtractFailsAsValidate ==
    (ret.validated /\ ret.extracted) =>
        /\ (ret.err # "nil" => ret.ep.err)
        /\ (ret.err = "nil" /\ arg.uri =>
                /\ ~ret.ep.err
                /\ ret.ep.host = arg.host
                /\ ret.ep.port = arg.port)

\* C12: for lines that passed validateLine, vmess lines included, every
\* endpoint a worker starts a connection attempt to has a host and a port in
\* 1..65535.
C12_DialedPortIsTCPPort ==
    \A w \in BagToSet(workers) :
        w.pc = "dial" =>
            /\ extractHostPort(w.it.line).host # << >>
            /\ extractHostPort(w.it.line).port >= 1
            /\ extractHostPort(w.it.line).port <= 65535

\* The call of SpecExportTwice under way has returned nil.
Exported == arg.fn = "export" /\ wpc = "returned" /\ werr = "nil"

\* The lines read back from the destination: its content decoded and split
\* on the newline.
ReadBack == SplitLines(B64Decode(Found(fs, wpath).data).val)

\* C13 as stated: after a successful export of any list, the empty one
\* included, the decoded content of the destination split on newline is the
\* input list, or the sorted input list when written sorted.
C13_RoundTripOfEveryList ==
    Exported =>
        ReadBack = IF arg.sorted THEN SortStrings(arg.lines) ELSE arg.lines

\* C13 amended: the round trip holds for every list that is not empty,
\* duplicates kept; the export of the empty list leaves an empty file, which
\* splits into one empty line.
C13_RoundTripOfNonEmptyList ==
    Exported =>
        /\ Exists(fs, wpath)
        /\ arg.lines # << >> =>
               ReadBack = IF arg.sorted THEN SortStrings(arg.lines) ELSE arg.lines
        /\ arg.lines = << >> => fs[wpath] = << >> /\ ReadBack = << << >> >>

\* A sorted export of a list that was not in order has returned nil.
C13_Witness ==
    /\ Exported
    /\ arg.sorted
    /\ Len(arg.lines) = 2
    /\ StrLess(arg.lines[2], arg.lines[1])

\* C14: a successful export run a second time on the same path with the same
\* list and flag leaves the files the first run left: the same destination
\* content and no other file, also after retried renames.
C14_SecondExportChangesNothing ==
    (Exported /\ ret.done) => fs = ret.fs

\* The second run has returned nil after a rename that was tried again.
C14_Witness ==
    /\ Exported
    /\ ret.done
    /\ Len(renames) > 1
    /\ arg.lines # << >>

\* C15: buildLiteTail(normal, n) returns the last min(n', len(normal)) lines
\* of normal in their order, n' being n when n > 0 and 100 otherwise, and
\* leaves normal as it was.
C15_TailOfTheList ==
    (arg.fn = "tail" /\ ret.done) =>
        LET wanted == IF arg.n > 0 THEN arg.n ELSE 100
            kept == IF wanted < Len(arg.lines) THEN wanted ELSE Len(arg.lines)
        IN  /\ Len(ret.out) = kept
            /\ \A i \in 1..kept : ret.out[i] = arg.lines[Len(arg.lines) - kept + i]
            /\ ret.normal = arg.lines

\* buildLiteTail has cut a list of 101 lines to its last 100 for a count
\* that is not positive.
C15_Witness ==
    /\ arg.fn = "tail"
    /\ ret.done
    /\ arg.n <= 0
    /\ Len(arg.lines) = 101
    /\ Len(ret.out) = 100
    /\ ret.out[1] = <<2>>

\* C16: splitByIPVersion puts every line whose host can be determined in
\* exactly one bucket, in input order, and a line without such a host in
\* neither; a bracketed host goes to ipv6, any other host to ipv4 exactly when
\* it holds three '.' once its trailing :port is stripped.
C16_BucketsFollowTheHost ==
    (arg.fn = "split" /\ ret.done) =>
        /\ ret.out.ipv4 = Wanted(arg.cases, "ipv4")
        /\ ret.out.ipv6 = Wanted(arg.cases, "ipv6")

\* The positions among the first n of the input whose line is not blank.
Fed(n) == {i \in 1..n : TrimSpace(lines[i]) # << >>}

\* The positions among the first n of the input that hold line l.
PositionsOf(l, n) == {i \in 1..n : TrimSpace(lines[i]) = l}

\* The number of times l is in the result.
TimesAppended(l) == Cardinality({k \in 1..Len(reachable) : reachable[k] = l})

\* C17: under every interleaving each line of the first 1000 positions that
\* is not blank is received by exactly one worker; a line whose connection
\* succeeded is in the result once for each of its occurrences and no other
\* line is; at most one worker is between mu.Lock() and mu.Unlock(); the
\* length of the result is the number of successful probes.
C17_EachLineExactlyOnce ==
    /\ dpc # "none" => nsent = Cardinality(Fed(di))
    /\ \A w \in BagToSet(workers) :
          w.pc # "recv" =>
              /\ workers[w] = 1
              /\ \A v \in BagToSet(workers) : (v.pc # "recv" /\ v.it.idx = w.it.idx) => v = w
              /\ w.it.idx < di
              /\ w.it.line = TrimSpace(lines[w.it.idx + 1])
    /\ NumAt({"append", "unlock"}) <= 1
    /\ (NumAt({"append", "unlock"}) = 1 => mu)
    /\ fpc = "returned" =>
          /\ nsent = Cardinality(Fed(IF Len(lines) > 1000 THEN 1000 ELSE Len(lines)))
          /\ \A l \in Range(reachable) \cup {TrimSpace(lines[i]) : i \in 1..Len(lines)} :
                TimesAppended(l) =
                    IF Connected(extractHostPort(l))
                    THEN Cardinality(PositionsOf(l, IF Len(lines) > 1000 THEN 1000
                                                    ELSE Len(lines)))
                    ELSE 0

\* A call on a list that holds a reachable line twice has returned the line
\* twice, with two workers.
C17_Witness ==
    /\ fpc = "returned"
    /\ spawned = 2
    /\ Len(lines) = 2
    /\ lines[1] = lines[2]
    /\ Len(reachable) = 2

\* C18: a worker exits only after the dispatcher has gone through its last
\* position and closed the channel; the channel is closed once, by the
\* dispatcher as it ends, stays closed, and nothing is sent on it once it is
\* closed; a worker without an item waits for the close.
C18_WorkersOutliveTheFeed ==
    [][/\ (fpc = "wait" /\ wg' < wg) => (closed /\ dpc = "done" /\ di >= limit)
       /\ BagCardinality(workers') < BagCardinality(workers) => closed
       /\ nsent' # nsent => (~closed /\ ~closed' /\ dpc = "loop")
       /\ closed => closed'
       /\ (~closed /\ closed') => (dpc = "loop" /\ dpc' = "done" /\ di >= limit)
       /\ dpc = "done" => (dpc' = "done" /\ closed)]_vars

\* With more workers than lines, a worker that received nothing has exited
\* after the close.
C18_Witness ==
    /\ fpc = "wait"
    /\ closed
    /\ spawned > Len(lines)
    /\ nsent = Len(lines)
    /\ nsent > 0
    /\ wg < spawned

\* The destination of the export main has under way.
OwnFile == [dir |-> si, base |-> mpc, tmp |-> FALSE]

WrittenFor(view) ==
    CASE view = "normal" -> SortStrings(reachable)
      [] view = "lite" -> lite
      [] view = "ipv4" -> SortStrings(ipv4)
      [] view = "ipv6" -> SortStrings(ipv6)

\* After the step the four files of the subscription hold its four views.
FourWritten ==
    \A v \in {"normal", "lite", "ipv4", "ipv6"} :
        /\ [dir |-> si, base |-> v, tmp |-> FALSE] \in DOMAIN fs'
        /\ fs'[[dir |-> si, base |-> v, tmp |-> FALSE]] = Encoded(WrittenFor(v))

\* While a subscription is fetched, validated and probed no file and no
\* directory changes; the subscription is left for the next one, or, only
\* with a reachable line, goes on to the exports.
SkippedLeavesNoTrace ==
    mpc \in {"fetch", "probe"} =>
        /\ fs' = fs
        /\ dirs' = dirs
        /\ mpc' \in {"fetch", "probe", "mkdir", "done"}
        /\ (mpc' = "mkdir" => (Len(reachable) > 0 /\ si' = si))
        /\ (si' # si => (si' = si + 1 /\ mpc' \in {"fetch", "done"}))

\* The exports follow each other in the order normal, lite, ipv4, ipv6.
WrittenInOrder ==
    /\ (mpc = "mkdir" /\ mpc' # mpc) => mpc' \in {"normal", "fatal"}
    /\ (mpc \in {"normal", "lite", "ipv4", "ipv6"} /\ mpc' # mpc) =>
           \/ mpc' = "fatal"
           \/ /\ wpc = "returned"
              /\ werr = "nil"
              /\ OwnFile \in DOMAIN fs
              /\ <<mpc, mpc'>> \in {<<"normal", "lite">>, <<"lite", "ipv4">>,
                                    <<"ipv4", "ipv6">>, <<"ipv6", "fetch">>,
                                    <<"ipv6", "done">>}

\* The turn of a subscription that had a reachable line ends with the step.
TurnEnds ==
    /\ mpc \in {"mkdir", "normal", "lite", "ipv4", "ipv6"}
    /\ mpc' \in {"fetch", "done", "fatal"}

====
